---- MODULE Spec2Model ----
(***************************************************************************)
(* Layer classification and state reconciliation of the MapLibre layer     *)
(* control (LayerControl.ts, CustomLayerRegistry.ts), with its style       *)
(* cache (styleCache.ts) and the panel width hook (usePanelWidth.ts).      *)
(*                                                                         *)
(* The host map, the custom-layer adapters and the user are the            *)
(* environment; every handler of the control is one atomic action (the     *)
(* control runs on the single JavaScript event loop).  Pending setTimeout  *)
(* callbacks are kept in the order in which they will fire: a callback is  *)
(* placed behind every pending callback with a delay that is not longer    *)
(* than its own.                                                           *)
(*                                                                         *)
(* Left out: options.layerStates (the store starts empty), the drag state  *)
(* of the opacity slider (userInteractingWithSlider stays false), layer    *)
(* names, and the panel of the Background legend but for its Show All and  *)
(* Hide All buttons.  The order of the keys of the store and the order of  *)
(* the layers in the style are followed in the specifications of the       *)
(* reorder operations and of the style editor, and null elsewhere (where   *)
(* the order in which one pass adds several layers is left open).  Opacity *)
(* and paint value 100 stand for 1.0.  Native and custom layer ids are     *)
(* disjoint.                                                               *)
(***************************************************************************)
EXTENDS Integers, Sequences, FiniteSets, TLC

VARIABLES
  options,                 \* LayerControlOptions given to the constructor
  phase,                   \* "constructed" | "fetching" | "attached" | "removed"
  mapLayers,               \* host style.layers: layer id -> [visible, opacity]
  initialSourceIds,        \* LayerControl.initialSourceIds (null before onAdd)
  initialLayerIds,         \* LayerControl.initialLayerIds (null before onAdd)
  basemapLayerIds,         \* LayerControl.basemapLayerIds (null until fetched)
  layerStates,             \* state.layerStates: id -> LayerState
  targetLayers,            \* LayerControl.targetLayers
  customLayerRegistry,     \* null, or the set of adapter types registered
  changeListeners,         \* CustomLayerRegistry.changeListeners (callbacks)
  adapterLayers,           \* the adapter's own layers: id -> [visible, opacity]
  removedCustomLayerIds,   \* LayerControl.removedCustomLayerIds
  isStyleOperationInProgress, \* state.isStyleOperationInProgress (the guard)
  timers,                  \* pending setTimeout callbacks <<cb, delay>>, in firing order
  skipped,                 \* history: a pass was skipped since the guard was raised
  removal,                 \* history, per custom id: what followed its removal by the user
  nativeCalls,             \* history: the layers for which the handler that ran last
                           \* called map.setLayoutProperty / setLayerOpacity
  escaped,                 \* history: the handler that ran last threw to its caller
  order,                   \* Object.keys(state.layerStates), the keys in insertion order;
                           \* null in the specifications that do not follow the order
  layerChangeListeners,    \* how many times setupLayerChangeListeners has subscribed
                           \* its 'styledata', 'data' and 'sourcedata' handlers to the map
  adapters,                \* CustomLayerRegistry.adapters: the entries [type, adapter]
                           \* of the Map, in its iteration order
  unsubscribers,           \* CustomLayerRegistry.unsubscribers: type -> the adapter
                           \* whose subscription the stored function ends
  subscriptions,           \* per adapter: the callbacks of the registry it holds
                           \* (onLayerChange called, its unsubscribe function not yet)
  adapterLayerIds,         \* per adapter: what getLayerIds() returns
  registered,              \* history: the registered adapters, in the order of the
                           \* calls of register that registered them
  cancelled,               \* history: the callbacks for which a function returned by
                           \* onChange has been called since they were last subscribed
  lastCall,                \* history: what the registry operation that ran last did
  mapOrder,                \* host style.layers: the layer ids from the lowest to the
                           \* highest; null in the specifications that do not follow it
  activeStyleEditor,       \* state.activeStyleEditor: null or a layer id
  styleEditors,            \* the keys of LayerControl.styleEditors (id -> editor element)
  originalStyles,          \* state.originalStyles: layer id -> [paint]
  paintAtCache,            \* history, per cached layer: the value every paint property
                           \* of the layer had when its entry of originalStyles was made
  panelWidth               \* the usePanelWidth hook of a mounted component: its options,
                           \* its state `width` and the `width` its callbacks closed
                           \* over at the last render; null while none is mounted

vars == <<options, phase, mapLayers, initialSourceIds, initialLayerIds,
          basemapLayerIds, layerStates, targetLayers, customLayerRegistry,
          changeListeners, adapterLayers, removedCustomLayerIds,
          isStyleOperationInProgress, timers, skipped, removal, nativeCalls,
          escaped, order, layerChangeListeners, adapters, unsubscribers,
          subscriptions, adapterLayerIds, registered, cancelled, lastCall, mapOrder,
          activeStyleEditor, styleEditors, originalStyles, paintAtCache,
          panelWidth>>

\* The fields of the components that are followed in specifications of their
\* own: the registry with several adapters.
registryVars ==
  <<adapters, unsubscribers, subscriptions, adapterLayerIds, registered,
    cancelled, lastCall>>
editorVars == <<activeStyleEditor, styleEditors>>
styleVars == <<originalStyles, paintAtCache>>
hookVars == <<panelWidth>>
componentVars == <<registryVars, editorVars, styleVars, hookVars>>

\* A nullable field is the empty set (null) or the set holding its one value.
Null == {}
Some(v) == {v}
Val(o) == CHOOSE v \in o : TRUE
NoSource == "no-source"
Background == "Background"

\* ---------------------------------------------------------------- bounds
\* most setTimeout callbacks pending at one time
MaxTimers == 2
\* most calls of onAdd on one control (map.addControl after map.removeControl)
MaxAttach == 2

\* ---------------------------------------------------------------- universe
\* Native layers the host map can hold, and the ids the adapter can report.
NativeIds == {"water", "user", "gm-tmp"}
CustomIds == {"cog"}
AdapterType == "cog-adapter"
\* The layers whose visibility is changed (by the user or by other code).
ToggledIds == {"user", "cog"}
\* The native layer the application adds and removes next to the basemap.
AppLayerIds == {"user"}

\* The characters of each layer id (ids are matched by regular expressions).
IdChars(id) ==
  CASE id = "water"  -> <<"w", "a", "t", "e", "r">>
    [] id = "user"   -> <<"u", "s", "e", "r">>
    [] id = "gm-tmp" -> <<"g", "m", "-", "t", "m", "p">>
    [] id = "cog"    -> <<"c", "o", "g">>
    [] OTHER         -> <<>>

\* The source each layer is drawn from (layer.source).
LayerSource(id) ==
  CASE id = "water"  -> "osm"
    [] id = "user"   -> "gj"
    [] id = "gm-tmp" -> "scratch"
    [] OTHER         -> NoSource

\* Source specifications: type, kind of `data` (geojson) and the host name of
\* the tile / data URL ("" when there is none, "invalid" when new URL() throws).
SourceSpec(s) ==
  CASE s = "osm"     -> [type |-> "vector",  data |-> "none",   host |-> "api.maptiler.com"]
    [] s = "gj"      -> [type |-> "geojson", data |-> "object", host |-> ""]
    [] s = "scratch" -> [type |-> "geojson", data |-> "object", host |-> ""]
    [] OTHER         -> [type |-> "none",    data |-> "none",   host |-> ""]

\* Layer ids of the style behind options.basemapStyleUrl.
BasemapStyleLayerIds == {"water"}
\* Host name of the style's sprite / glyphs URL.
StyleSpriteHost == "demotiles.maplibre.org"

\* ---------------------------------------------------------------- timing
\* setTimeout delays in milliseconds.
ReconcileDelay == 100
MetadataDelay == 150
SettleDelay == 200

\* ---------------------------------------------------------------- patterns
Lit(chars) == [i \in 1..Len(chars) |-> {chars[i]}]

\* The regular expressions of isDrawnLayer, each a sequence of character
\* classes anchored at the start of the id (/i: the ids here are lower case).
drawnLayerPatterns ==
  { Lit(<<"g", "m">>) \o <<{"-", "_", " "}>>,
    Lit(<<"g", "l", "-", "d", "r", "a", "w">>) \o <<{"-", "_"}>>,
    Lit(<<"m", "a", "p", "b", "o", "x", "-", "g", "l", "-", "d", "r", "a", "w">>) \o <<{"-", "_"}>>,
    Lit(<<"t", "e", "r", "r", "a", "-", "d", "r", "a", "w">>) \o <<{"-", "_"}>>,
    Lit(<<"m", "a", "p", "l", "i", "b", "r", "e", "-", "g", "l", "-", "d", "r", "a", "w">>) \o <<{"-", "_"}>>,
    Lit(<<"d", "r", "a", "w">>) \o <<{"-", "_"}>> \o Lit(<<"l", "a", "y", "e", "r">>),
    Lit(<<"m", "e", "a", "s", "u", "r", "e", "-">>),
    Lit(<<"p", "m", "t", "i", "l", "e", "s", "-", "s", "o", "u", "r", "c", "e", "-">>),
    Lit(<<"s", "t", "a", "c", "-", "s", "e", "a", "r", "c", "h", "-",
          "f", "o", "o", "t", "p", "r", "i", "n", "t", "s">>) }

PrefixTest(pattern, chars) ==
  /\ Len(chars) >= Len(pattern)
  /\ \A i \in 1..Len(pattern) : chars[i] \in pattern[i]

isDrawnLayer(layerId) ==
  \E pattern \in drawnLayerPatterns : PrefixTest(pattern, IdChars(layerId))

\* wildcardPatternsToRegex: '*' matches any run of characters, every other
\* character matches itself, and the whole id must match (^...$).
RECURSIVE WildcardTest(_, _)
WildcardTest(pattern, chars) ==
  IF pattern = <<>> THEN chars = <<>>
  ELSE IF Head(pattern) = "*"
       THEN \/ WildcardTest(Tail(pattern), chars)
            \/ chars # <<>> /\ WildcardTest(pattern, Tail(chars))
       ELSE /\ chars # <<>>
            /\ Head(chars) = Head(pattern)
            /\ WildcardTest(Tail(pattern), Tail(chars))

isExcludedByPatternIn(patterns, layerId) ==
  \E pattern \in patterns : WildcardTest(pattern, IdChars(layerId))

\* The ids of the universe that each test accepts (evaluated once).
AllIds == NativeIds \cup CustomIds \cup {Background}
TmpPattern == <<"*", "-", "t", "m", "p">>
ExcludedBy(patterns) == {id \in AllIds : isExcludedByPatternIn(patterns, id)}

isExcludedByPattern(layerId) == layerId \in ExcludedBy(options.excludeLayers)

\* ---------------------------------------------------------------- sources
knownBasemapProviders ==
  {"demotiles.maplibre.org", "api.maptiler.com", "tiles.stadiamaps.com",
   "api.mapbox.com", "basemaps.cartocdn.com", "tiles.mapbox.com",
   "a.basemaps.cartocdn.com", "b.basemaps.cartocdn.com",
   "c.basemaps.cartocdn.com", "d.basemaps.cartocdn.com",
   "tiles.arcgis.com", "server.arcgisonline.com", "services.arcgisonline.com"}

\* style.sources: the host holds exactly the sources its layers use.
MapSources == {LayerSource(l) : l \in DOMAIN mapLayers} \ {NoSource}

\* The body of the loop of detectUserAddedSources for one source that is not
\* in the initial snapshot.  The host names of the model are those of the
\* provider list themselves, so that `includes` and `endsWith` are equality.
SourceLooksUserAdded(s) ==
  LET src == SourceSpec(s)
      isBasemap == src.host \in knownBasemapProviders \/ src.host = StyleSpriteHost
  IN  CASE src.type \in {"image", "video", "canvas"} -> TRUE
        [] src.type = "geojson" ->
             \/ src.data = "object"
             \/ src.data = "url" /\ (src.host = "invalid" \/ ~isBasemap)
        [] src.type \in {"raster", "raster-dem", "vector"} ->
             /\ src.host # ""
             /\ (src.host = "invalid" \/ ~isBasemap)
        [] OTHER -> FALSE

\* The classification context a call reads: the two snapshots of onAdd and the
\* layer ids of the fetched basemap style, each nullable.
Context ==
  [initialSourceIds |-> initialSourceIds,
   initialLayerIds |-> initialLayerIds,
   basemapLayerIds |-> basemapLayerIds]

detectUserAddedSources(ctx) ==
  {s \in MapSources :
     /\ ~(ctx.initialSourceIds # Null /\ s \in Val(ctx.initialSourceIds))
     /\ SourceLooksUserAdded(s)}

\* ---------------------------------------------------------------- registry
\* CustomLayerRegistry.getAllLayerIds / getAdapterForLayer / getLayerState
\* (registry: the nullable set of registered adapter types; adapter: the
\* adapter's layers at the time of the call).
getAllLayerIds(registry, adapter) ==
  IF registry = Null \/ AdapterType \notin Val(registry)
  THEN {} ELSE DOMAIN adapter

getLayerState(adapter, layerId) ==
  [visible |-> adapter[layerId].visible,
   opacity |-> adapter[layerId].opacity,
   isCustomLayer |-> TRUE]

\* A LayerState read from the host map (getLayoutProperty / getLayerOpacity).
NativeState(layerId) ==
  [visible |-> mapLayers[layerId].visible,
   opacity |-> mapLayers[layerId].opacity,
   isCustomLayer |-> FALSE]

BackgroundState == [visible |-> TRUE, opacity |-> 100, isCustomLayer |-> FALSE]

\* Function update that also adds keys: f with the entries of g written over it.
Merge(f, g) ==
  [k \in DOMAIN f \cup DOMAIN g |-> IF k \in DOMAIN g THEN g[k] ELSE f[k]]
Without(f, keys) == [k \in DOMAIN f \ keys |-> f[k]]
EmptyStates == [k \in {} |-> BackgroundState]

\* ---------------------------------------------------------------- key order
\* state.layerStates is a plain object: Object.keys / Object.entries give its
\* keys in the order in which they were first assigned; delete keeps the order
\* of the others.
Range(seq) == {seq[i] : i \in 1..Len(seq)}
Orderings(S) ==
  {seq \in [1..Cardinality(S) -> S] : \A i, j \in 1..Cardinality(S) : seq[i] = seq[j] => i = j}
KeptKeys(keys, states) == SelectSeq(keys, LAMBDA k : k \in DOMAIN states)

\* The key orders with the Background entry assigned after the entries of the
\* layers found in the same call.
KeyOrders_backgroundLast(keys, states) ==
  LET new == DOMAIN states \ Range(keys)
      natives == {k \in new : k # Background /\ ~states[k].isCustomLayer}
      customs == {k \in new : k # Background /\ states[k].isCustomLayer}
      background == IF Background \in new THEN <<Background>> ELSE <<>>
  IN  {KeptKeys(keys, states) \o n \o c \o background :
         n \in Orderings(natives), c \in Orderings(customs)}

\* The key orders of store `states` that autoDetectLayers or checkForNewLayers
\* leave when the keys were `keys` before the call: the keys that stay, then
\* the new ones: Background, the native layers in the order of the style, the
\* custom layers in the order of the registry.
KeyOrders(keys, states) ==
  LET new == DOMAIN states \ Range(keys)
      natives == {k \in new : k # Background /\ ~states[k].isCustomLayer}
      customs == {k \in new : k # Background /\ states[k].isCustomLayer}
      background == IF Background \in new THEN <<Background>> ELSE <<>>
  IN  {KeptKeys(keys, states) \o background \o n \o c :
         n \in Orderings(natives), c \in Orderings(customs)}

\* The values of `order` after a handler that leaves store `states`.
keysAfter(keys, states) ==
  IF keys = Null THEN {Null} ELSE {Some(k) : k \in KeyOrders(Val(keys), states)}

\* ---------------------------------------------------------------- host stack
\* The sequence `seq` with x put in before its element i (at the end when
\* i is Len(seq) + 1).
InsertBefore(seq, i, x) == SubSeq(seq, 1, i - 1) \o <<x>> \o SubSeq(seq, i, Len(seq))

\* The values of `mapOrder` after a handler that leaves the host with the
\* layers `layers`: map.removeLayer takes a layer out of style.layers, and
\* map.addLayer(layer, beforeId) puts one in at the place the caller chooses.
stackAfter(stack, layers) ==
  IF stack = Null THEN {Null}
  ELSE LET kept == SelectSeq(Val(stack), LAMBDA l : l \in DOMAIN layers)
           new == DOMAIN layers \ Range(Val(stack))
       IN  IF new = {} THEN {Some(kept)}
           ELSE {Some(InsertBefore(kept, i, l)) : i \in 1..(Len(kept) + 1), l \in new}

\* ---------------------------------------------------------------- classifier
useBasemapStyleDetection(ctx) ==
  ctx.basemapLayerIds # Null /\ Val(ctx.basemapLayerIds) # {}

usesUserAddedSource(ctx, layerId) ==
  /\ LayerSource(layerId) # NoSource
  /\ LayerSource(layerId) \in detectUserAddedSources(ctx)

\* isUserAddedLayer without its first test, the one for an entry of the store.
isUserAddedLayer_untracked(states, ctx, layerId) ==
  IF useBasemapStyleDetection(ctx)
  THEN layerId \notin Val(ctx.basemapLayerIds)
  ELSE IF ctx.initialLayerIds # Null /\ layerId \notin Val(ctx.initialLayerIds)
       THEN TRUE
  ELSE layerId \in DOMAIN mapLayers /\ usesUserAddedSource(ctx, layerId)

isUserAddedLayer(states, ctx, layerId) ==
  IF layerId \in DOMAIN states /\ layerId # Background THEN TRUE
  ELSE IF useBasemapStyleDetection(ctx)
       THEN layerId \notin Val(ctx.basemapLayerIds)
  ELSE IF ctx.initialLayerIds # Null /\ layerId \notin Val(ctx.initialLayerIds)
       THEN TRUE
  ELSE layerId \in DOMAIN mapLayers /\ usesUserAddedSource(ctx, layerId)

\* autoDetectLayers, auto-detect branch (targetLayers empty): the layers that
\* get an entry of their own; every other layer is a background layer.
autoDetectedUserLayers(ctx) ==
  {l \in DOMAIN mapLayers :
     /\ ~(options.excludeDrawnLayers /\ isDrawnLayer(l))
     /\ ~isExcludedByPattern(l)
     /\ IF useBasemapStyleDetection(ctx)
        THEN l \notin Val(ctx.basemapLayerIds)
        ELSE usesUserAddedSource(ctx, l)}

\* The explicit branch with the drawn-layer test of the auto-detect branch.
listedUserLayers_drawn ==
  {l \in DOMAIN mapLayers :
     /\ ~(options.excludeDrawnLayers /\ isDrawnLayer(l))
     /\ ~isExcludedByPattern(l)
     /\ l \in targetLayers}

\* autoDetectLayers, explicit branch (targetLayers given).
listedUserLayers ==
  {l \in DOMAIN mapLayers : ~isExcludedByPattern(l) /\ l \in targetLayers}

\* autoDetectLayers: the state store it leaves, starting from `states`.
autoDetectLayers(states, ctx) ==
  LET userLayers ==
        IF targetLayers = {} THEN autoDetectedUserLayers(ctx) ELSE listedUserLayers
      backgroundLayerIds == DOMAIN mapLayers \ userLayers
      withBackground ==
        IF backgroundLayerIds # {}
        THEN Merge(states, [id \in {Background} |-> BackgroundState])
        ELSE states
      withNative ==
        Merge(withBackground, [l \in userLayers |-> NativeState(l)])
      customLayerIds == getAllLayerIds(customLayerRegistry, adapterLayers)
      newCustom == {id \in customLayerIds : id \notin DOMAIN withNative}
  IN  Merge(withNative, [id \in newCustom |-> getLayerState(adapterLayers, id)])

\* ---------------------------------------------------------------- reconciliation
\* updateLayerStatesFromMap: visible / opacity of tracked native layers are
\* read back from the host (userInteractingWithSlider is false throughout).
updateLayerStatesFromMap(states) ==
  [id \in DOMAIN states |->
     IF states[id].isCustomLayer \/ id = Background \/ id \notin DOMAIN mapLayers
     THEN states[id]
     ELSE [states[id] EXCEPT !.visible = mapLayers[id].visible,
                             !.opacity = mapLayers[id].opacity]]

\* checkForNewLayers, "Check if we're in auto-detect mode".
isAutoDetectMode(states) ==
  \/ targetLayers = {}
  \/ targetLayers = {Background}
  \/ \A id \in targetLayers : id = Background \/ id \in DOMAIN states

\* isNewLayer without the early return for the layers of initialLayerIds.
isNewLayer_resighted(states, layerId) ==
  LET ctx == Context
      useInitialLayerDetection ==
        /\ ~useBasemapStyleDetection(ctx)
        /\ initialLayerIds # Null /\ Val(initialLayerIds) # {}
  IN  /\ layerId # Background
      /\ layerId \notin DOMAIN states
      /\ isAutoDetectMode(states) =>
           /\ ~(options.excludeDrawnLayers /\ isDrawnLayer(layerId))
           /\ ~isExcludedByPattern(layerId)
           /\ isUserAddedLayer(states, ctx, layerId)
           /\ IF useBasemapStyleDetection(ctx)
              THEN layerId \notin Val(basemapLayerIds)
              ELSE IF useInitialLayerDetection
                   THEN layerId \in Val(initialLayerIds)
                          => usesUserAddedSource(ctx, layerId)
                   ELSE usesUserAddedSource(ctx, layerId)

\* checkForNewLayers, the test of the loop that collects newLayers.
isNewLayer(states, layerId) ==
  LET ctx == Context
      useInitialLayerDetection ==
        /\ ~useBasemapStyleDetection(ctx)
        /\ initialLayerIds # Null /\ Val(initialLayerIds) # {}
  IN  /\ layerId # Background
      /\ layerId \notin DOMAIN states
      /\ ~(initialLayerIds # Null /\ layerId \in Val(initialLayerIds))
      /\ isAutoDetectMode(states) =>
           /\ ~(options.excludeDrawnLayers /\ isDrawnLayer(layerId))
           /\ ~isExcludedByPattern(layerId)
           /\ isUserAddedLayer(states, ctx, layerId)
           /\ IF useBasemapStyleDetection(ctx)
              THEN layerId \notin Val(basemapLayerIds)
              ELSE IF useInitialLayerDetection
                   THEN layerId \in Val(initialLayerIds)
                          => usesUserAddedSource(ctx, layerId)
                   ELSE usesUserAddedSource(ctx, layerId)

\* checkCustomLayers without the test of the tombstone set.
checkCustomLayers_forgetful(states, removed, registry, adapter) ==
  LET customLayerIds == getAllLayerIds(registry, adapter)
      newCustom == {id \in customLayerIds : id \notin DOMAIN states}
      added == Merge(states, [id \in newCustom |-> getLayerState(adapter, id)])
      gone ==
        {id \in DOMAIN added : added[id].isCustomLayer /\ id \notin customLayerIds}
  IN  IF registry = Null THEN states ELSE Without(added, gone)

\* checkCustomLayers with the removal test made against the layer list of
\* the host map instead of the ids the registry reports.
checkCustomLayers_hostList(states, removed, registry, adapter) ==
  LET customLayerIds == getAllLayerIds(registry, adapter)
      newCustom ==
        {id \in customLayerIds : id \notin DOMAIN states /\ id \notin removed}
      added == Merge(states, [id \in newCustom |-> getLayerState(adapter, id)])
      gone ==
        {id \in DOMAIN added : added[id].isCustomLayer /\ id \notin DOMAIN mapLayers}
  IN  IF registry = Null THEN states ELSE Without(added, gone)

\* checkCustomLayers that reads the state of every layer the registry reports
\* (the test for an entry of the store left out of the loop that adds).
checkCustomLayers_refreshed(states, removed, registry, adapter) ==
  LET customLayerIds == getAllLayerIds(registry, adapter)
      read == {id \in customLayerIds : id \notin removed}
      added == Merge(states, [id \in read |-> getLayerState(adapter, id)])
      gone ==
        {id \in DOMAIN added : added[id].isCustomLayer /\ id \notin customLayerIds}
  IN  IF registry = Null THEN states ELSE Without(added, gone)

\* checkForNewLayers, the part that reconciles the custom layers of the
\* registry (removed, registry, adapter: the tombstone set, the registry and
\* the adapter's layers at the time of the call).
checkCustomLayers(states, removed, registry, adapter) ==
  LET customLayerIds == getAllLayerIds(registry, adapter)
      newCustom ==
        {id \in customLayerIds : id \notin DOMAIN states /\ id \notin removed}
      added == Merge(states, [id \in newCustom |-> getLayerState(adapter, id)])
      gone ==
        {id \in DOMAIN added : added[id].isCustomLayer /\ id \notin customLayerIds}
  IN  IF registry = Null THEN states ELSE Without(added, gone)

\* checkForNewLayers below its guard test: the store one pass leaves.
reconcile(states, removed, registry, adapter) ==
  LET currentMapLayerIds == DOMAIN mapLayers
      newLayers == {l \in currentMapLayerIds : isNewLayer(states, l)}
      removedLayers ==
        {id \in DOMAIN states :
           /\ id # Background
           /\ ~states[id].isCustomLayer
           /\ id \notin currentMapLayerIds}
      native ==
        Merge(Without(states, removedLayers), [l \in newLayers |-> NativeState(l)])
  IN  checkCustomLayers(native, removed, registry, adapter)

\* checkForNewLayers without its guard test.
checkForNewLayers_unguarded(guard, states, removed, registry, adapter) ==
  reconcile(states, removed, registry, adapter)

\* checkForNewLayers: nothing happens while a style operation is in progress
\* (guard: state.isStyleOperationInProgress at the time of the call).
checkForNewLayers(guard, states, removed, registry, adapter) ==
  IF guard THEN states ELSE reconcile(states, removed, registry, adapter)

\* ---------------------------------------------------------------- timers
Timer(cb, delay) == <<cb, delay>>

\* The places at which a new callback can stand in the firing order: behind
\* every pending callback whose delay is not longer (it was set earlier and
\* fires earlier), before or behind the others.
Places(queue, delay) ==
  {i \in 0..Len(queue) : \A j \in 1..Len(queue) : queue[j][2] <= delay => j <= i}

InsertAt(queue, i, t) == SubSeq(queue, 1, i) \o <<t>> \o SubSeq(queue, i + 1, Len(queue))

\* setTimeout, once for every callback of `list` in turn: the queues that can
\* result.
RECURSIVE Scheduled(_, _)
Scheduled(queue, list) ==
  IF list = <<>> THEN {queue}
  ELSE UNION {Scheduled(InsertAt(queue, i, Head(list)), Tail(list)) :
                i \in Places(queue, Head(list)[2])}

\* The model keeps at most MaxTimers callbacks pending.
Fits(list) == Len(timers) + Len(list) <= MaxTimers

\* The control listens to the map from onAdd on (setupLayerChangeListeners);
\* onRemove leaves the handlers subscribed.
Listening == layerChangeListeners > 0

\* One event of the map: every subscribed copy of the handler schedules
\* callback t.
Heard(t) == [i \in 1..layerChangeListeners |-> t]

\* map.on('styledata'): every change of the host style schedules a
\* reconciliation (updateLayerStatesFromMap, then checkForNewLayers).
onStyleData == Heard(Timer("sync", ReconcileDelay))

\* ---------------------------------------------------------------- registry events
\* One callback subscribed with CustomLayerRegistry.onChange, run on the record
\* c = [removed, scheduled, states, skipped, ran]: "deferred" is the callback
\* of setupLayerChangeListeners, "immediate" the one of registerCustomAdapter.
onRegistryChange(listener, c, guard, adapter, event, layerId) ==
  LET removed == IF event = "add" THEN c.removed \ {layerId} ELSE c.removed
  IN  IF listener = "deferred"
      THEN [c EXCEPT !.removed = removed,
                     !.scheduled = Append(@, Timer("check", ReconcileDelay))]
      ELSE [c EXCEPT !.removed = removed,
                     !.states = checkForNewLayers(guard, @, removed,
                                                  customLayerRegistry, adapter),
                     !.skipped = @ \/ guard,
                     !.ran = @ \/ ~guard]

\* CustomLayerRegistry.notifyChange: every subscribed callback, in order.
RECURSIVE notifyChange(_, _, _, _, _, _)
notifyChange(listeners, c, guard, adapter, event, layerId) ==
  IF listeners = <<>> THEN c
  ELSE notifyChange(Tail(listeners),
                    onRegistryChange(Head(listeners), c, guard, adapter, event, layerId),
                    guard, adapter, event, layerId)

\* The callbacks an event of the adapter reaches: the registry subscribes to an
\* adapter when it is registered.
Reached ==
  IF customLayerRegistry # Null /\ AdapterType \in Val(customLayerRegistry)
  THEN changeListeners ELSE <<>>

Here == [removed |-> removedCustomLayerIds, scheduled |-> <<>>,
         states |-> layerStates, skipped |-> skipped, ran |-> FALSE]

\* ---------------------------------------------------------------- history
\* removal[x] records what the claims about removed custom layers speak of:
\*   "none"     the user has not removed x (or x was re-armed and then dropped)
\*   "removed"  the user removed x; the adapter has emitted no 'add' for x since
\*   "spared"   as "removed", and a pass that ran has since found x listed by
\*              the registry and left it out of the store
\*   "rearmed"  the adapter emitted 'add' for x after the removal and lists x
\* Spared: the history after a pass (guard: the guard at the time of the pass,
\* states: the store the pass left).
Spared(h, guard, registry, adapter, states) ==
  [x \in CustomIds |->
     IF /\ ~guard
        /\ h[x] = "removed"
        /\ x \in getAllLayerIds(registry, adapter)
        /\ x \notin DOMAIN states
     THEN "spared" ELSE h[x]]

\* ---------------------------------------------------------------- initial state
LayerLists == {{}, {"user"}, {"user", "gm-tmp"}}

\* The options a control is constructed with.
Options ==
  [layers : LayerLists,
   excludeDrawnLayers : BOOLEAN,
   excludeLayers : {{}, {TmpPattern}},
   basemapStyleUrl : BOOLEAN,
   customLayerAdapters : BOOLEAN]

\* The layers the map holds when the control is attached to it: none (an empty
\* style, or a style that has not loaded yet), the basemap, and the layers the
\* application added before the control.
HostsAtConstruction ==
  {{}, {"water"}, {"user"}, {"water", "user"}, {"water", "user", "gm-tmp"}}
HostLayers(ids) == [l \in ids |-> [visible |-> TRUE, opacity |-> 100]]

\* ---------------------------------------------------------------- registry
\* The adapters that can be handed to CustomLayerRegistry.register: two of
\* one type, so that one can replace the other, and one of another type
\* that has no onLayerChange (the method is optional).
RegistryAdapters == {"cogA", "cogB", "zarr"}
TypeOf(a) == IF a = "zarr" THEN "zarr-adapter" ELSE AdapterType
hasOnLayerChange(a) == a # "zarr"
\* The callbacks handed to CustomLayerRegistry.onChange.
Callbacks == {"deferred", "immediate"}

NoCall == [op |-> "none", adapter |-> Null, layerId |-> Null,
           invoked |-> <<>>, setters |-> <<>>, returned |-> FALSE]

\* new CustomLayerRegistry(): no adapter, no subscription.
NewRegistry ==
  /\ adapters = <<>>
  /\ unsubscribers = [t \in {} |-> "cogA"]
  /\ subscriptions = [a \in RegistryAdapters |-> 0]
  /\ registered = <<>>
  /\ cancelled = {}
  /\ lastCall = NoCall

\* The components that are followed in specifications of their own, as they
\* are constructed, and left alone.
\* The style editors of a new control: none is open, none is registered.
NoEditors == activeStyleEditor = Null /\ styleEditors = {}

\* state.originalStyles of a new control: an empty Map.
NoStyles == originalStyles = <<>> /\ paintAtCache = <<>>

ComponentsUnused ==
  /\ NewRegistry
  /\ adapterLayerIds = [a \in RegistryAdapters |-> {}]
  /\ NoEditors
  /\ NoStyles
  /\ panelWidth = Null

\* checkForNewLayers, "Clean up style editor if open": for every entry that a
\* pass deletes, activeStyleEditor is set to null if it is that id and the id
\* is deleted from styleEditors.  (A handler that deletes no entry leaves
\* both as they are.)
EditorsCleaned ==
  LET deleted == DOMAIN layerStates \ DOMAIN layerStates'
  IN  /\ activeStyleEditor' =
           IF activeStyleEditor # Null /\ Val(activeStyleEditor) \in deleted
           THEN Null ELSE activeStyleEditor
      /\ styleEditors' = styleEditors \ deleted

\* buildLayerItems: the rows are made anew and styleEditors is cleared;
\* state.activeStyleEditor is not written.
EditorsRebuilt == styleEditors' = {} /\ UNCHANGED activeStyleEditor

\* The state the constructor leaves, for options of `opts` on a map that holds
\* one of `hosts`, but for the order of the keys.
Built(opts, hosts) ==
  /\ options \in opts
  /\ phase = "constructed"
  /\ mapLayers \in {HostLayers(ids) : ids \in hosts}
  /\ initialSourceIds = Null
  /\ initialLayerIds = Null
  /\ basemapLayerIds = Null
  /\ layerStates = EmptyStates
  /\ targetLayers = options.layers
  /\ customLayerRegistry =
       IF options.customLayerAdapters THEN Some({AdapterType}) ELSE Null
  /\ changeListeners = <<>>
  /\ adapterLayers = EmptyStates
  /\ removedCustomLayerIds = {}
  /\ isStyleOperationInProgress = FALSE
  /\ timers = <<>>
  /\ skipped = FALSE
  /\ removal = [x \in CustomIds |-> "none"]
  /\ nativeCalls = {}
  /\ escaped = FALSE
  /\ layerChangeListeners = 0

\* The state the constructor leaves; the order of the keys is not followed.
Constructed(opts, hosts) ==
  Built(opts, hosts) /\ order = Null /\ mapOrder = Null /\ ComponentsUnused

\* Controls in auto-detect mode with the default exclusions, on a map that
\* holds its basemap: the setting of the reconciliation loop and the registry.
\* A control that fetches a basemap style is given its adapters at construction.
AutoDetectOptions ==
  {o \in Options :
     /\ o.layers = {} /\ o.excludeDrawnLayers /\ o.excludeLayers = {}
     /\ o.basemapStyleUrl => o.customLayerAdapters}

Init == Constructed(AutoDetectOptions, {{"water"}})

\* Every way of configuring the classifier, without custom-layer adapters.
ClassifierOptions == {o \in Options : ~o.customLayerAdapters}

InitClassify == Constructed(ClassifierOptions, HostsAtConstruction)

\* ---------------------------------------------------------------- lifecycle
\* onAdd calls autoDetectLayers only while the store is empty; autoDetectLayers
\* ends by setting targetLayers to the keys of the store.
detected(ctx) ==
  IF DOMAIN layerStates = {}
  THEN [states |-> autoDetectLayers(layerStates, ctx),
        target |-> DOMAIN autoDetectLayers(layerStates, ctx)]
  ELSE [states |-> layerStates, target |-> targetLayers]

\* LayerControl.onAdd: the snapshots, the listeners, then either the fetch of
\* the basemap style or the classification.
OnAdd ==
  /\ phase \in {"constructed", "removed"}
  /\ layerChangeListeners < MaxAttach
  /\ layerChangeListeners' = layerChangeListeners + 1
  /\ initialSourceIds' = Some(MapSources)
  /\ initialLayerIds' = Some(DOMAIN mapLayers)
  /\ changeListeners' =
       IF customLayerRegistry # Null
       THEN Append(changeListeners, "deferred") ELSE changeListeners
  /\ IF options.basemapStyleUrl /\ basemapLayerIds = Null
     THEN /\ phase' = "fetching"
          /\ nativeCalls' = {}
          /\ escaped' = FALSE
          /\ UNCHANGED <<layerStates, targetLayers>>
     ELSE LET d == detected([Context EXCEPT
                               !.initialSourceIds = Some(MapSources),
                               !.initialLayerIds = Some(DOMAIN mapLayers)])
          IN  /\ phase' = "attached"
              /\ layerStates' = d.states
              /\ targetLayers' = d.target
  /\ order' \in keysAfter(order, layerStates')
  /\ nativeCalls' = {}
  /\ escaped' = FALSE
  /\ IF phase' = "attached" THEN EditorsRebuilt ELSE UNCHANGED editorVars
  /\ UNCHANGED <<options, mapLayers, basemapLayerIds, customLayerRegistry,
                 adapterLayers, removedCustomLayerIds,
                 isStyleOperationInProgress, timers, skipped, removal,
                 registryVars, styleVars, hookVars, mapOrder>>

\* fetchBasemapStyle resolves: the layer ids of the style (none when the style
\* holds no layers array), then the classification.
FetchResolved ==
  /\ phase = "fetching"
  /\ \E ids \in {BasemapStyleLayerIds, {}} :
       LET d == detected([Context EXCEPT !.basemapLayerIds = Some(ids)])
       IN  /\ basemapLayerIds' = Some(ids)
           /\ layerStates' = d.states
           /\ targetLayers' = d.target
  /\ phase' = "attached"
  /\ order' \in keysAfter(order, layerStates')
  /\ nativeCalls' = {}
  /\ escaped' = FALSE
  /\ EditorsRebuilt
  /\ UNCHANGED <<options, mapLayers, initialSourceIds, initialLayerIds,
                 customLayerRegistry, changeListeners, adapterLayers,
                 removedCustomLayerIds, isStyleOperationInProgress, timers,
                 skipped, removal,
                 layerChangeListeners, registryVars, styleVars, hookVars, mapOrder>>

\* The end of a failed fetch without the classification of the catch branch.
FetchRejected_silent ==
  /\ phase = "fetching"
  /\ phase' = "attached"
  /\ nativeCalls' = {}
  /\ escaped' = FALSE
  /\ UNCHANGED <<options, mapLayers, initialSourceIds, initialLayerIds,
                 basemapLayerIds, layerStates, targetLayers, customLayerRegistry,
                 changeListeners, adapterLayers, removedCustomLayerIds,
                 isStyleOperationInProgress, timers, skipped, removal, order,
                 layerChangeListeners, componentVars, mapOrder>>

\* fetchBasemapStyle rejects (network error, HTTP status): heuristics only.
FetchRejected ==
  /\ phase = "fetching"
  /\ LET d == detected(Context)
     IN  /\ layerStates' = d.states
         /\ targetLayers' = d.target
  /\ phase' = "attached"
  /\ order' \in keysAfter(order, layerStates')
  /\ nativeCalls' = {}
  /\ escaped' = FALSE
  /\ EditorsRebuilt
  /\ UNCHANGED <<options, mapLayers, initialSourceIds, initialLayerIds,
                 basemapLayerIds, customLayerRegistry, changeListeners,
                 adapterLayers, removedCustomLayerIds,
                 isStyleOperationInProgress, timers, skipped, removal,
                 layerChangeListeners, registryVars, styleVars, hookVars, mapOrder>>

\* LayerControl.onRemove (map.removeControl), once the control is attached and
\* its fetch has settled: the registry is destroyed and dropped, the panel is
\* taken out of the page.  The handlers of setupLayerChangeListeners stay
\* subscribed to the map and pending callbacks stay pending.
OnRemove ==
  /\ phase = "attached"
  /\ phase' = "removed"
  /\ customLayerRegistry' = Null
  /\ changeListeners' = <<>>
  /\ nativeCalls' = {}
  /\ escaped' = FALSE
  /\ UNCHANGED <<options, mapLayers, initialSourceIds, initialLayerIds,
                 basemapLayerIds, layerStates, targetLayers, adapterLayers,
                 removedCustomLayerIds, isStyleOperationInProgress, timers,
                 skipped, removal, order, layerChangeListeners, componentVars, mapOrder>>

\* ---------------------------------------------------------------- host map
\* What the map held before the control was attached is part of the initial
\* state; from onAdd on every change of the style is heard by the control.
\* Code outside the control adds a layer (and its source) to the map.
HostAddLayer(l) ==
  /\ Listening
  /\ l \notin DOMAIN mapLayers
  /\ mapLayers' = Merge(mapLayers, [k \in {l} |-> [visible |-> TRUE, opacity |-> 100]])
  /\ Fits(onStyleData)
  /\ timers' \in Scheduled(timers, onStyleData)
  /\ mapOrder' \in stackAfter(mapOrder, mapLayers')
  /\ nativeCalls' = {}
  /\ escaped' = FALSE
  /\ UNCHANGED <<options, phase, initialSourceIds, initialLayerIds,
                 basemapLayerIds, layerStates, targetLayers, customLayerRegistry,
                 changeListeners, adapterLayers, removedCustomLayerIds,
                 isStyleOperationInProgress, skipped, removal, order,
                 layerChangeListeners, componentVars>>

\* Code outside the control removes a layer (and its source) from the map.
HostRemoveLayer(l) ==
  /\ Listening
  /\ l \in DOMAIN mapLayers
  /\ mapLayers' = Without(mapLayers, {l})
  /\ Fits(onStyleData)
  /\ timers' \in Scheduled(timers, onStyleData)
  /\ mapOrder' \in stackAfter(mapOrder, mapLayers')
  /\ nativeCalls' = {}
  /\ escaped' = FALSE
  /\ UNCHANGED <<options, phase, initialSourceIds, initialLayerIds,
                 basemapLayerIds, layerStates, targetLayers, customLayerRegistry,
                 changeListeners, adapterLayers, removedCustomLayerIds,
                 isStyleOperationInProgress, skipped, removal, order,
                 layerChangeListeners, componentVars>>

\* Code outside the control shows or hides a layer of the map.
HostSetVisibility(l, v) ==
  /\ Listening
  /\ l \in DOMAIN mapLayers
  /\ mapLayers[l].visible # v
  /\ mapLayers' = [mapLayers EXCEPT ![l].visible = v]
  /\ Fits(onStyleData)
  /\ timers' \in Scheduled(timers, onStyleData)
  /\ nativeCalls' = {}
  /\ escaped' = FALSE
  /\ UNCHANGED <<options, phase, initialSourceIds, initialLayerIds,
                 basemapLayerIds, layerStates, targetLayers, customLayerRegistry,
                 changeListeners, adapterLayers, removedCustomLayerIds,
                 isStyleOperationInProgress, skipped, removal, order,
                 layerChangeListeners, componentVars, mapOrder>>

\* map.on('data') with sourceDataType 'content': a source finished loading.
MapData ==
  /\ Listening
  /\ Fits(Heard(Timer("sync", ReconcileDelay)))
  /\ timers' \in Scheduled(timers, Heard(Timer("sync", ReconcileDelay)))
  /\ nativeCalls' = {}
  /\ escaped' = FALSE
  /\ UNCHANGED <<options, phase, mapLayers, initialSourceIds, initialLayerIds,
                 basemapLayerIds, layerStates, targetLayers, customLayerRegistry,
                 changeListeners, adapterLayers, removedCustomLayerIds,
                 isStyleOperationInProgress, skipped, removal, order,
                 layerChangeListeners, componentVars, mapOrder>>

\* map.on('sourcedata') with sourceDataType 'metadata'.
MapSourceData ==
  /\ Listening
  /\ Fits(Heard(Timer("check", MetadataDelay)))
  /\ timers' \in Scheduled(timers, Heard(Timer("check", MetadataDelay)))
  /\ nativeCalls' = {}
  /\ escaped' = FALSE
  /\ UNCHANGED <<options, phase, mapLayers, initialSourceIds, initialLayerIds,
                 basemapLayerIds, layerStates, targetLayers, customLayerRegistry,
                 changeListeners, adapterLayers, removedCustomLayerIds,
                 isStyleOperationInProgress, skipped, removal, order,
                 layerChangeListeners, componentVars, mapOrder>>

\* ---------------------------------------------------------------- timers firing
\* The callback at the head of the firing order runs.
\* The callback of the 'styledata' and 'data' handlers:
\* updateLayerStatesFromMap, then checkForNewLayers.
SyncTimer ==
  /\ timers # <<>> /\ Head(timers)[1] = "sync"
  /\ timers' = Tail(timers)
  /\ layerStates' =
       checkForNewLayers(isStyleOperationInProgress,
                         updateLayerStatesFromMap(layerStates),
                         removedCustomLayerIds, customLayerRegistry, adapterLayers)
  /\ skipped' = (skipped \/ isStyleOperationInProgress)
  /\ removal' = Spared(removal, isStyleOperationInProgress,
                       customLayerRegistry, adapterLayers, layerStates')
  /\ order' \in keysAfter(order, layerStates')
  /\ nativeCalls' = {}
  /\ escaped' = FALSE
  /\ EditorsCleaned
  /\ UNCHANGED <<options, phase, mapLayers, initialSourceIds, initialLayerIds,
                 basemapLayerIds, targetLayers, customLayerRegistry,
                 changeListeners, adapterLayers, removedCustomLayerIds,
                 isStyleOperationInProgress,
                 layerChangeListeners, registryVars, styleVars, hookVars, mapOrder>>

\* The callback of the 'sourcedata' handler and of the deferred registry
\* listener: checkForNewLayers.
CheckTimer ==
  /\ timers # <<>> /\ Head(timers)[1] = "check"
  /\ timers' = Tail(timers)
  /\ layerStates' =
       checkForNewLayers(isStyleOperationInProgress, layerStates,
                         removedCustomLayerIds, customLayerRegistry, adapterLayers)
  /\ skipped' = (skipped \/ isStyleOperationInProgress)
  /\ removal' = Spared(removal, isStyleOperationInProgress,
                       customLayerRegistry, adapterLayers, layerStates')
  /\ order' \in keysAfter(order, layerStates')
  /\ nativeCalls' = {}
  /\ escaped' = FALSE
  /\ EditorsCleaned
  /\ UNCHANGED <<options, phase, mapLayers, initialSourceIds, initialLayerIds,
                 basemapLayerIds, targetLayers, customLayerRegistry,
                 changeListeners, adapterLayers, removedCustomLayerIds,
                 isStyleOperationInProgress,
                 layerChangeListeners, registryVars, styleVars, hookVars, mapOrder>>

\* The callback every mutation schedules: the guard is lowered.
SettleTimer ==
  /\ timers # <<>> /\ Head(timers)[1] = "settle"
  /\ timers' = Tail(timers)
  /\ isStyleOperationInProgress' = FALSE
  /\ skipped' = FALSE
  /\ nativeCalls' = {}
  /\ escaped' = FALSE
  /\ UNCHANGED <<options, phase, mapLayers, initialSourceIds, initialLayerIds,
                 basemapLayerIds, layerStates, targetLayers, customLayerRegistry,
                 changeListeners, adapterLayers, removedCustomLayerIds, removal, order,
                 layerChangeListeners, componentVars, mapOrder>>

\* ---------------------------------------------------------------- adapter
NewAdapterLayer == [visible |-> TRUE, opacity |-> 100]

\* The adapter gains layer x, or announces again a layer it holds, and emits
\* an 'add' event.
AdapterAddLayer(x) ==
  LET adapter ==
        IF x \in DOMAIN adapterLayers THEN adapterLayers
        ELSE Merge(adapterLayers, [k \in {x} |-> NewAdapterLayer])
      c == notifyChange(Reached, Here, isStyleOperationInProgress, adapter, "add", x)
  IN  /\ adapterLayers' = adapter
      /\ Fits(c.scheduled)
      /\ timers' \in Scheduled(timers, c.scheduled)
      /\ removedCustomLayerIds' = c.removed
      /\ layerStates' = c.states
      /\ skipped' = c.skipped
      /\ removal' =
           LET h == [removal EXCEPT ![x] = IF @ = "none" THEN @ ELSE "rearmed"]
           IN  IF c.ran
               THEN Spared(h, FALSE, customLayerRegistry, adapter, c.states)
               ELSE h
      /\ order' \in keysAfter(order, layerStates')
      /\ nativeCalls' = {}
      /\ escaped' = FALSE
      /\ EditorsCleaned
      /\ UNCHANGED <<options, phase, mapLayers, initialSourceIds,
                     initialLayerIds, basemapLayerIds, targetLayers,
                     customLayerRegistry, changeListeners,
                     isStyleOperationInProgress,
                     layerChangeListeners, registryVars, styleVars, hookVars, mapOrder>>

\* The adapter drops layer x and emits a 'remove' event.
AdapterRemoveLayer(x) ==
  LET adapter == Without(adapterLayers, {x})
      c == notifyChange(Reached, Here, isStyleOperationInProgress, adapter, "remove", x)
  IN  /\ x \in DOMAIN adapterLayers
      /\ adapterLayers' = adapter
      /\ Fits(c.scheduled)
      /\ timers' \in Scheduled(timers, c.scheduled)
      /\ removedCustomLayerIds' = c.removed
      /\ layerStates' = c.states
      /\ skipped' = c.skipped
      /\ removal' =
           LET h == [removal EXCEPT ![x] = IF @ = "rearmed" THEN "none" ELSE @]
           IN  IF c.ran
               THEN Spared(h, FALSE, customLayerRegistry, adapter, c.states)
               ELSE h
      /\ order' \in keysAfter(order, layerStates')
      /\ nativeCalls' = {}
      /\ escaped' = FALSE
      /\ EditorsCleaned
      /\ UNCHANGED <<options, phase, mapLayers, initialSourceIds,
                     initialLayerIds, basemapLayerIds, targetLayers,
                     customLayerRegistry, changeListeners,
                     isStyleOperationInProgress,
                     layerChangeListeners, registryVars, styleVars, hookVars, mapOrder>>

\* LayerControl.registerCustomAdapter: the registry is created and subscribed
\* to on first use; once the panel exists a pass runs at once.
RegisterCustomAdapter ==
  /\ ~(customLayerRegistry # Null /\ AdapterType \in Val(customLayerRegistry))
  /\ customLayerRegistry' = Some({AdapterType})
  /\ changeListeners' =
       IF customLayerRegistry = Null
       THEN Append(changeListeners, "immediate") ELSE changeListeners
  /\ layerStates' =
       IF phase # "constructed"
       THEN checkForNewLayers(isStyleOperationInProgress, layerStates,
                              removedCustomLayerIds, Some({AdapterType}),
                              adapterLayers)
       ELSE layerStates
  /\ skipped' = (skipped \/ (phase # "constructed" /\ isStyleOperationInProgress))
  /\ removal' = Spared(removal, phase = "constructed" \/ isStyleOperationInProgress,
                       Some({AdapterType}), adapterLayers, layerStates')
  /\ order' \in keysAfter(order, layerStates')
  /\ nativeCalls' = {}
  /\ escaped' = FALSE
  /\ EditorsCleaned
  /\ UNCHANGED <<options, phase, mapLayers, initialSourceIds, initialLayerIds,
                 basemapLayerIds, targetLayers, adapterLayers,
                 removedCustomLayerIds, isStyleOperationInProgress, timers,
                 layerChangeListeners, registryVars, styleVars, hookVars, mapOrder>>

\* ---------------------------------------------------------------- user
\* The rows of the panel that carry a context menu and a checkbox of their
\* own: one per entry of the store, Background apart.
Rows ==
  IF phase \in {"constructed", "removed"} THEN {}
  ELSE DOMAIN layerStates \ {Background}

\* CustomLayerRegistry.setVisibility: handled when an adapter lists the id.
handledByRegistry(layerId) ==
  layerId \in getAllLayerIds(customLayerRegistry, adapterLayers)

\* LayerControl.toggleLayerVisibility for a row other than Background.
ToggleLayerVisibility(layerId, visible) ==
  LET handled == handledByRegistry(layerId)
      styled == /\ ~handled
                /\ layerId \in DOMAIN mapLayers
                /\ mapLayers[layerId].visible # visible
      newTimers == (IF styled THEN onStyleData ELSE <<>>)
                     \o <<Timer("settle", SettleDelay)>>
  IN  /\ layerId \in Rows
      /\ isStyleOperationInProgress' = TRUE
      /\ layerStates' = [layerStates EXCEPT ![layerId].visible = visible]
      /\ adapterLayers' =
           IF handled THEN [adapterLayers EXCEPT ![layerId].visible = visible]
           ELSE adapterLayers
      /\ mapLayers' =
           IF styled THEN [mapLayers EXCEPT ![layerId].visible = visible]
           ELSE mapLayers
      /\ Fits(newTimers)
      /\ timers' \in Scheduled(timers, newTimers)
      /\ order' \in keysAfter(order, layerStates')
      /\ nativeCalls' = IF handled THEN {} ELSE {layerId}
      /\ escaped' = FALSE
      /\ EditorsCleaned
      /\ UNCHANGED <<options, phase, initialSourceIds, initialLayerIds,
                     basemapLayerIds, targetLayers, customLayerRegistry,
                     changeListeners, removedCustomLayerIds, skipped, removal,
                     layerChangeListeners, registryVars, styleVars, hookVars, mapOrder>>

\* LayerControl.removeLayer.  The registry hands the removal to the adapter,
\* whose removeLayer is optional (CustomLayerAdapter): an adapter that has it
\* drops the layer and emits 'remove', one that has not keeps listing the layer.
RemoveLayer(layerId, adapterRemoves) ==
  LET isCustom == layerStates[layerId].isCustomLayer /\ customLayerRegistry # Null
      listed == handledByRegistry(layerId)
      hidden == IF isCustom /\ listed
                THEN [adapterLayers EXCEPT ![layerId].visible = FALSE]
                ELSE adapterLayers
      drops == isCustom /\ listed /\ adapterRemoves
      adapter == IF drops THEN Without(hidden, {layerId}) ELSE hidden
      tombstoned == [Here EXCEPT !.removed =
                       IF isCustom THEN @ \cup {layerId} ELSE @]
      c == IF drops
           THEN notifyChange(Reached, tombstoned, TRUE, adapter, "remove", layerId)
           ELSE tombstoned
      onMap == layerId \in DOMAIN mapLayers
      newTimers == c.scheduled \o (IF onMap THEN onStyleData ELSE <<>>)
                     \o <<Timer("settle", SettleDelay)>>
  IN  /\ layerId \in Rows
      /\ isStyleOperationInProgress' = TRUE
      /\ removedCustomLayerIds' = c.removed
      /\ adapterLayers' = adapter
      /\ mapLayers' = Without(mapLayers, {layerId})
      /\ layerStates' = Without(c.states, {layerId})
      /\ skipped' = c.skipped
      /\ Fits(newTimers)
      /\ timers' \in Scheduled(timers, newTimers)
      /\ removal' = IF isCustom
                    THEN [removal EXCEPT ![layerId] = "removed"] ELSE removal
      /\ order' \in keysAfter(order, layerStates')
      /\ mapOrder' \in stackAfter(mapOrder, mapLayers')
      /\ nativeCalls' = {}
      /\ escaped' = FALSE
      /\ UNCHANGED editorVars
      /\ UNCHANGED <<options, phase, initialSourceIds, initialLayerIds,
                     basemapLayerIds, targetLayers, customLayerRegistry,
                     changeListeners,
                     layerChangeListeners, registryVars, styleVars, hookVars>>

\* The values the opacity slider is moved to (100 stands for 1.0).  Every
\* layer of the model is of a type that has an opacity property.
Opacities == {50, 100}

\* LayerControl.changeLayerOpacity for a row other than Background (a single
\* 'input' event of the slider).
ChangeLayerOpacity(layerId, opacity) ==
  LET handled == handledByRegistry(layerId)
      onMap == ~handled /\ layerId \in DOMAIN mapLayers
      styled == onMap /\ mapLayers[layerId].opacity # opacity
      newTimers == (IF styled THEN onStyleData ELSE <<>>)
                     \o <<Timer("settle", SettleDelay)>>
  IN  /\ layerId \in Rows
      /\ isStyleOperationInProgress' = TRUE
      /\ layerStates' = [layerStates EXCEPT ![layerId].opacity = opacity]
      /\ adapterLayers' =
           IF handled THEN [adapterLayers EXCEPT ![layerId].opacity = opacity]
           ELSE adapterLayers
      /\ mapLayers' =
           IF onMap THEN [mapLayers EXCEPT ![layerId].opacity = opacity]
           ELSE mapLayers
      /\ Fits(newTimers)
      /\ timers' \in Scheduled(timers, newTimers)
      /\ order' \in keysAfter(order, layerStates')
      /\ nativeCalls' = IF onMap THEN {layerId} ELSE {}
      /\ escaped' = FALSE
      /\ EditorsCleaned
      /\ UNCHANGED <<options, phase, initialSourceIds, initialLayerIds,
                     basemapLayerIds, targetLayers, customLayerRegistry,
                     changeListeners, removedCustomLayerIds, skipped, removal,
                     layerChangeListeners, registryVars, styleVars, hookVars, mapOrder>>

\* The Background row exists once autoDetectLayers has made its entry.
BackgroundRow == phase = "attached" /\ Background \in DOMAIN layerStates

\* The layers the Background row stands for: the layers of the style that
\* isUserAddedLayer rejects.
backgroundMembers ==
  {l \in DOMAIN mapLayers : ~isUserAddedLayer(layerStates, Context, l)}

\* LayerControl.toggleBackgroundVisibility (toggleLayerVisibility on the
\* Background row): the entry, then every member on the map.
ToggleBackgroundVisibility(visible) ==
  LET written == [l \in DOMAIN mapLayers |->
                   IF l \in backgroundMembers
                   THEN [mapLayers[l] EXCEPT !.visible = visible]
                   ELSE mapLayers[l]]
      newTimers == IF written # mapLayers THEN onStyleData ELSE <<>>
  IN  /\ BackgroundRow
      /\ layerStates' = [layerStates EXCEPT ![Background].visible = visible]
      /\ mapLayers' = written
      /\ Fits(newTimers)
      /\ timers' \in Scheduled(timers, newTimers)
      /\ order' \in keysAfter(order, layerStates')
      /\ nativeCalls' = backgroundMembers
      /\ escaped' = FALSE
      /\ EditorsCleaned
      /\ UNCHANGED <<options, phase, initialSourceIds, initialLayerIds,
                     basemapLayerIds, targetLayers, customLayerRegistry,
                     changeListeners, adapterLayers, removedCustomLayerIds,
                     isStyleOperationInProgress, skipped, removal,
                     layerChangeListeners, registryVars, styleVars, hookVars, mapOrder>>

\* LayerControl.changeBackgroundOpacity (changeLayerOpacity on the Background
\* row): the entry, then every member on the map.
ChangeBackgroundOpacity(opacity) ==
  LET written == [l \in DOMAIN mapLayers |->
                   IF l \in backgroundMembers
                   THEN [mapLayers[l] EXCEPT !.opacity = opacity]
                   ELSE mapLayers[l]]
      newTimers == IF written # mapLayers THEN onStyleData ELSE <<>>
  IN  /\ BackgroundRow
      /\ layerStates' = [layerStates EXCEPT ![Background].opacity = opacity]
      /\ mapLayers' = written
      /\ Fits(newTimers)
      /\ timers' \in Scheduled(timers, newTimers)
      /\ order' \in keysAfter(order, layerStates')
      /\ nativeCalls' = backgroundMembers
      /\ escaped' = FALSE
      /\ EditorsCleaned
      /\ UNCHANGED <<options, phase, initialSourceIds, initialLayerIds,
                     basemapLayerIds, targetLayers, customLayerRegistry,
                     changeListeners, adapterLayers, removedCustomLayerIds,
                     isStyleOperationInProgress, skipped, removal,
                     layerChangeListeners, registryVars, styleVars, hookVars, mapOrder>>

\* ---------------------------------------------------------------- failures
\* An adapter is user code: its getLayerIds may throw.  The registry calls it
\* in getAdapterForLayer for every id it is asked about.
AdapterRegistered ==
  customLayerRegistry # Null /\ AdapterType \in Val(customLayerRegistry)

\* toggleLayerVisibility when adapter.getLayerIds throws inside
\* CustomLayerRegistry.setVisibility: the guard is raised and the entry is
\* written, the exception ends the handler before the native call and before
\* setTimeout.
ToggleLayerVisibilityThrows(layerId, visible) ==
  /\ layerId \in Rows
  /\ AdapterRegistered
  /\ isStyleOperationInProgress' = TRUE
  /\ layerStates' = [layerStates EXCEPT ![layerId].visible = visible]
  /\ order' \in keysAfter(order, layerStates')
  /\ nativeCalls' = {}
  /\ escaped' = TRUE
  /\ EditorsCleaned
  /\ UNCHANGED <<options, phase, mapLayers, initialSourceIds, initialLayerIds,
                 basemapLayerIds, targetLayers, customLayerRegistry,
                 changeListeners, adapterLayers, removedCustomLayerIds, timers,
                 skipped, removal,
                 layerChangeListeners, registryVars, styleVars, hookVars, mapOrder>>

\* changeLayerOpacity when adapter.getLayerIds throws inside
\* CustomLayerRegistry.setOpacity.
ChangeLayerOpacityThrows(layerId, opacity) ==
  /\ layerId \in Rows
  /\ AdapterRegistered
  /\ isStyleOperationInProgress' = TRUE
  /\ layerStates' = [layerStates EXCEPT ![layerId].opacity = opacity]
  /\ order' \in keysAfter(order, layerStates')
  /\ nativeCalls' = {}
  /\ escaped' = TRUE
  /\ EditorsCleaned
  /\ UNCHANGED <<options, phase, mapLayers, initialSourceIds, initialLayerIds,
                 basemapLayerIds, targetLayers, customLayerRegistry,
                 changeListeners, adapterLayers, removedCustomLayerIds, timers,
                 skipped, removal,
                 layerChangeListeners, registryVars, styleVars, hookVars, mapOrder>>

\* checkForNewLayers below its guard test when the read of one new layer
\* throws: of a native layer in the loop that adds newLayers
\* (getLayerOpacity, getLayoutProperty), or of a custom layer in the loop that
\* adds custom layers (getLayerState).  The one catch of the method ends the
\* pass there.  The loops follow the order of the style and of the adapter's
\* list, which the model does not hold: any of the other new layers may have
\* been added before the throw.  The stores such a pass can leave.
reconcileThrows(states, removed, registry, adapter, layerId) ==
  LET currentMapLayerIds == DOMAIN mapLayers
      newLayers == {l \in currentMapLayerIds : isNewLayer(states, l)}
      removedLayers ==
        {id \in DOMAIN states :
           /\ id # Background
           /\ ~states[id].isCustomLayer
           /\ id \notin currentMapLayerIds}
      kept == Without(states, removedLayers)
      native == Merge(kept, [l \in newLayers |-> NativeState(l)])
      customLayerIds == getAllLayerIds(registry, adapter)
      newCustom ==
        {id \in customLayerIds : id \notin DOMAIN native /\ id \notin removed}
  IN  IF layerId \in newLayers
      THEN {Merge(kept, [l \in before |-> NativeState(l)]) :
              before \in SUBSET (newLayers \ {layerId})}
      ELSE IF layerId \in newCustom
      THEN {Merge(native, [id \in before |-> getLayerState(adapter, id)]) :
              before \in SUBSET (newCustom \ {layerId})}
      ELSE {}

\* The callback of the 'styledata' and 'data' handlers when the read of new
\* layer layerId throws in checkForNewLayers.
SyncTimerThrows(layerId) ==
  /\ timers # <<>> /\ Head(timers)[1] = "sync"
  /\ ~isStyleOperationInProgress
  /\ timers' = Tail(timers)
  /\ layerStates' \in
       reconcileThrows(updateLayerStatesFromMap(layerStates),
                       removedCustomLayerIds, customLayerRegistry,
                       adapterLayers, layerId)
  /\ order' \in keysAfter(order, layerStates')
  /\ nativeCalls' = {}
  /\ escaped' = FALSE
  /\ EditorsCleaned
  /\ UNCHANGED <<options, phase, mapLayers, initialSourceIds, initialLayerIds,
                 basemapLayerIds, targetLayers, customLayerRegistry,
                 changeListeners, adapterLayers, removedCustomLayerIds,
                 isStyleOperationInProgress, skipped, removal,
                 layerChangeListeners, registryVars, styleVars, hookVars, mapOrder>>

\* The callback of the 'sourcedata' handler and of the deferred registry
\* listener when the read of new layer layerId throws in checkForNewLayers.
CheckTimerThrows(layerId) ==
  /\ timers # <<>> /\ Head(timers)[1] = "check"
  /\ ~isStyleOperationInProgress
  /\ timers' = Tail(timers)
  /\ layerStates' \in
       reconcileThrows(layerStates, removedCustomLayerIds,
                       customLayerRegistry, adapterLayers, layerId)
  /\ order' \in keysAfter(order, layerStates')
  /\ nativeCalls' = {}
  /\ escaped' = FALSE
  /\ EditorsCleaned
  /\ UNCHANGED <<options, phase, mapLayers, initialSourceIds, initialLayerIds,
                 basemapLayerIds, targetLayers, customLayerRegistry,
                 changeListeners, adapterLayers, removedCustomLayerIds,
                 isStyleOperationInProgress, skipped, removal,
                 layerChangeListeners, registryVars, styleVars, hookVars, mapOrder>>

\* ---------------------------------------------------------------- specification
\* The control with its registry, the user and the timers; the application
\* adds and removes its own layer while the basemap stays.
Next ==
  \/ OnAdd
  \/ FetchResolved
  \/ FetchRejected
  \/ \E l \in AppLayerIds : HostAddLayer(l)
  \/ \E l \in AppLayerIds : HostRemoveLayer(l)
  \/ \E l \in ToggledIds \cap NativeIds, v \in BOOLEAN : HostSetVisibility(l, v)
  \/ MapData
  \/ MapSourceData
  \/ SyncTimer
  \/ CheckTimer
  \/ SettleTimer
  \/ \E x \in CustomIds : AdapterAddLayer(x)
  \/ \E x \in CustomIds : AdapterRemoveLayer(x)
  \/ RegisterCustomAdapter
  \/ \E id \in ToggledIds, v \in BOOLEAN : ToggleLayerVisibility(id, v)
  \/ \E id \in AllIds, r \in BOOLEAN : RemoveLayer(id, r)

Spec == Init /\ [][Next]_vars

\* The classifier and the reconciliation of native layers alone: the host map
\* changes, the control is attached and its passes run; no adapter is
\* registered and the user does not touch the panel.
NextClassify ==
  \/ OnAdd
  \/ FetchResolved
  \/ FetchRejected
  \/ \E l \in NativeIds : HostAddLayer(l)
  \/ \E l \in NativeIds : HostRemoveLayer(l)
  \/ \E l \in ToggledIds \cap NativeIds, v \in BOOLEAN : HostSetVisibility(l, v)
  \/ MapData
  \/ MapSourceData
  \/ SyncTimer
  \/ CheckTimer

SpecClassify == InitClassify /\ [][NextClassify]_vars

\* The mutation funnel: a control in auto-detect mode without basemapStyleUrl
\* on a map that holds its basemap; the application adds its layer, an adapter
\* is registered, and the user works the checkboxes and sliders of the rows.
FunnelOptions == {o \in AutoDetectOptions : ~o.basemapStyleUrl}

InitFunnel == Constructed(FunnelOptions, {{"water"}})

NextFunnel ==
  \/ OnAdd
  \/ \E l \in AppLayerIds : HostAddLayer(l)
  \/ \E l \in AppLayerIds : HostRemoveLayer(l)
  \/ SyncTimer
  \/ CheckTimer
  \/ SettleTimer
  \/ \E x \in CustomIds : AdapterAddLayer(x)
  \/ \E x \in CustomIds : AdapterRemoveLayer(x)
  \/ RegisterCustomAdapter
  \/ \E id \in ToggledIds, v \in BOOLEAN : ToggleLayerVisibility(id, v)
  \/ \E id \in ToggledIds, o \in Opacities : ChangeLayerOpacity(id, o)
  \/ \E v \in BOOLEAN : ToggleBackgroundVisibility(v)
  \/ \E o \in Opacities : ChangeBackgroundOpacity(o)

SpecFunnel == InitFunnel /\ [][NextFunnel]_vars

\* Failures: the application adds its layer, the adapter adds and drops its
\* own, the user changes visibility and opacity of their rows, and calls into the adapter
\* and reads of the map can throw.
NextFaults ==
  \/ OnAdd
  \/ \E l \in AppLayerIds : HostAddLayer(l)
  \/ SyncTimer
  \/ CheckTimer
  \/ SettleTimer
  \/ \E x \in CustomIds : AdapterAddLayer(x)
  \/ \E x \in CustomIds : AdapterRemoveLayer(x)
  \/ \E id \in ToggledIds, v \in BOOLEAN : ToggleLayerVisibility(id, v)
  \/ \E id \in ToggledIds, o \in Opacities : ChangeLayerOpacity(id, o)
  \/ \E id \in ToggledIds, v \in BOOLEAN : ToggleLayerVisibilityThrows(id, v)
  \/ \E id \in ToggledIds, o \in Opacities : ChangeLayerOpacityThrows(id, o)
  \/ \E id \in AllIds : SyncTimerThrows(id)
  \/ \E id \in AllIds : CheckTimerThrows(id)

SpecFaults == InitFunnel /\ [][NextFaults]_vars

\* ================================================================ claims
\* The guard is lowered and no callback is pending: nothing more happens
\* until the host, the adapter or the user acts again.
Quiescent == timers = <<>> /\ ~isStyleOperationInProgress

\* A registered adapter lists x.
Listed(x) == x \in getAllLayerIds(customLayerRegistry, adapterLayers)

\* A step in which a host notification or an adapter event is handled.
Notified ==
  \/ SyncTimer
  \/ CheckTimer
  \/ \E x \in CustomIds : AdapterAddLayer(x)
  \/ \E x \in CustomIds : AdapterRemoveLayer(x)

\* A step in which autoDetectLayers runs (onAdd, or the end of the fetch).
Classifies ==
  /\ phase # "attached" /\ phase' = "attached"
  /\ DOMAIN layerStates = {}

\* The native layers the exclusion options name.
Excluded ==
  {l \in NativeIds :
     isExcludedByPattern(l) \/ (options.excludeDrawnLayers /\ isDrawnLayer(l))}

\* ---------------------------------------------------------------- C1
\* C1 (tombstone): once the user has removed custom layer x through the
\* control, and until the adapter emits 'add' for x, no step that runs
\* checkForNewLayers gives x an entry again, whether or not the adapter
\* still lists x.
C1_Tombstone ==
  [][\A x \in CustomIds :
       ( /\ removal[x] \in {"removed", "spared"}
         /\ removal'[x] \in {"removed", "spared"}
         /\ x \notin DOMAIN layerStates
         /\ ~Classifies )
       => x \notin DOMAIN layerStates']_vars

\* A pass ran with the guard lowered while the adapter listed a removed x, and
\* x is still without an entry.
C1_Witness ==
  \E x \in CustomIds :
    /\ removal[x] = "spared"
    /\ Listed(x)
    /\ x \in removedCustomLayerIds
    /\ x \notin DOMAIN layerStates

\* ---------------------------------------------------------------- C2
\* C2 (tombstone re-arm): after the adapter has emitted 'add' for a removed
\* x that it lists, x is out of the tombstone set, and x has an entry again
\* as soon as nothing is pending (no callback, guard lowered), that is
\* without any further event.
C2_Rearm ==
  \A x \in CustomIds :
    removal[x] = "rearmed" =>
      /\ x \notin removedCustomLayerIds
      /\ (Quiescent /\ Listed(x)) => x \in DOMAIN layerStates

C4_DeferredPass ==
  [][(isStyleOperationInProgress /\ ~isStyleOperationInProgress' /\ skipped) =>
       layerStates' \in
         {reconcile(layerStates, removedCustomLayerIds,
                    customLayerRegistry, adapterLayers),
          reconcile(updateLayerStatesFromMap(layerStates), removedCustomLayerIds,
                    customLayerRegistry, adapterLayers)}]_vars

\* ---------------------------------------------------------------- C5
\* One reconciliation as the 'styledata' callback runs it, from store `states`
\* with the guard lowered.
Pass(states) ==
  reconcile(updateLayerStatesFromMap(states), removedCustomLayerIds,
            customLayerRegistry, adapterLayers)

\* C5 (idempotence): with the guard lowered, a second pass run right after a
\* first one, with nothing changed on the host or in the adapter, leaves the
\* store of the first.
C5_Idempotent ==
  (phase # "constructed" /\ ~isStyleOperationInProgress) =>
     Pass(Pass(layerStates)) = Pass(layerStates)

\* ---------------------------------------------------------------- C6
\* C6 (precedence): in auto-detect mode, once a non-empty basemapLayerIds has
\* been fetched and the control is attached, no host layer of basemapLayerIds
\* has an entry of its own.
C6_Precedence ==
  (options.layers = {} /\ phase = "attached" /\ useBasemapStyleDetection(Context)) =>
     \A l \in DOMAIN mapLayers \cap Val(basemapLayerIds) : l \notin DOMAIN layerStates

C8_UnlistedNever ==
  options.layers # {} =>
    \A l \in NativeIds \ options.layers : l \notin DOMAIN layerStates

\* ---------------------------------------------------------------- C9
\* C9 (exclusion): a native layer that matches an excludeLayers pattern, or a
\* drawn-layer pattern while excludeDrawnLayers is on, never has an entry of
\* its own.
C9_ExcludedNever ==
  \A l \in Excluded : l \notin DOMAIN layerStates

\* ---------------------------------------------------------------- C10
\* C10 (layers added before the control): in auto-detect mode without
\* basemapStyleUrl, onAdd gives an entry to every layer on the map that is not
\* excluded and whose source is the application's own (inline GeoJSON, not a
\* basemap provider's).
C10_DetectedAtAttach ==
  [][(Classifies /\ options.layers = {} /\ ~options.basemapStyleUrl) =>
       \A l \in DOMAIN mapLayers \ Excluded :
         SourceLooksUserAdded(LayerSource(l)) => l \in DOMAIN layerStates']_vars

\* ---------------------------------------------------------------- C11
\* A step in which a reconciliation pass runs from a timer callback.
PassRuns == SyncTimer \/ CheckTimer

\* C11 (layers added after the control): in auto-detect mode without
\* basemapStyleUrl, a pass that runs with the guard lowered gives every
\* native layer on the map that is not excluded and not in initialLayerIds an
\* entry of its own, a new entry holding the host's visible and opacity, and
\* gives no entry to a layer of initialLayerIds that has none.
C11_AddedAfterAttach ==
  [][( /\ PassRuns
       /\ phase = "attached"
       /\ options.layers = {} /\ ~options.basemapStyleUrl
       /\ ~isStyleOperationInProgress ) =>
       /\ \A l \in (DOMAIN mapLayers \ Excluded) \ Val(initialLayerIds) :
            /\ l \in DOMAIN layerStates'
            /\ l \notin DOMAIN layerStates => layerStates'[l] = NativeState(l)
       /\ \A l \in Val(initialLayerIds) \ DOMAIN layerStates :
            l \notin DOMAIN layerStates']_vars

\* ---------------------------------------------------------------- C12
\* C12 (no flapping): once the control is attached, a layer of
\* initialLayerIds that has no entry of its own is given none by any later
\* step, whatever the mode of the pass and the sources on the map are.
C12_NoFlapping ==
  [][\A l \in NativeIds :
       ( /\ phase = "attached"
         /\ l \in Val(initialLayerIds)
         /\ l \notin DOMAIN layerStates )
       => l \notin DOMAIN layerStates']_vars

\* A pass has removed the entry of a listed layer that left the map, so that
\* passes no longer filter by source or pattern, and a layer of
\* initialLayerIds that is on the map is still without an entry.
C12_Witness ==
  /\ phase = "attached"
  /\ ~isAutoDetectMode(layerStates)
  /\ \E l \in Val(initialLayerIds) \cap DOMAIN mapLayers :
       /\ l \notin DOMAIN layerStates
       /\ ~(options.excludeDrawnLayers /\ isDrawnLayer(l))
       /\ ~isExcludedByPattern(l)

\* ---------------------------------------------------------------- C13
\* The pending callbacks of the 'sourcedata' (metadata) handler; in
\* SpecClassify no registry listener schedules "check" callbacks.
PendingMetadataTimers == {i \in 1..Len(timers) : timers[i] = Timer("check", MetadataDelay)}

\* C13 (debounce): a metadata notification that arrives while the callback of
\* an earlier one is pending schedules no second callback: at most one
\* callback of the stream is pending at any time.
C13_Debounce == Cardinality(PendingMetadataTimers) <= 1

\* ---------------------------------------------------------------- C14
\* A step in which the user changes the visibility or the opacity of a row,
\* the Background row included.
UserMutation ==
  \/ \E id \in ToggledIds, v \in BOOLEAN : ToggleLayerVisibility(id, v)
  \/ \E id \in ToggledIds, o \in Opacities : ChangeLayerOpacity(id, o)
  \/ \E v \in BOOLEAN : ToggleBackgroundVisibility(v)
  \/ \E o \in Opacities : ChangeBackgroundOpacity(o)

\* C14 (guard first): every change of visibility or opacity made by the user,
\* on a row of its own or on the Background row, leaves the guard raised when
\* the handler returns.
C14_GuardRaised == [][UserMutation => isStyleOperationInProgress']_vars

\* ---------------------------------------------------------------- C15
\* C15 (registry first, native fallback): when the user changes visibility or
\* opacity of a row x other than Background, the native API is called for x
\* exactly when no registered adapter claims x, and the entry of x holds the
\* new value when the handler is left.
C15_RegistryFirst ==
  [][\A x \in ToggledIds :
       /\ \A v \in BOOLEAN :
            (ToggleLayerVisibility(x, v) \/ ToggleLayerVisibilityThrows(x, v)) =>
              /\ (x \in nativeCalls') = ~Listed(x)
              /\ layerStates'[x].visible = v
       /\ \A o \in Opacities :
            (ChangeLayerOpacity(x, o) \/ ChangeLayerOpacityThrows(x, o)) =>
              /\ (x \in nativeCalls') = ~Listed(x)
              /\ layerStates'[x].opacity = o]_vars

\* ---------------------------------------------------------------- C16
\* C16 (adapter failure contained): when a call into the adapter throws while
\* the user changes visibility or opacity of row x, the change falls back to
\* the native API for x and no exception leaves the handler.
C16_AdapterFailureContained ==
  [][\A x \in ToggledIds :
       ( \/ \E v \in BOOLEAN : ToggleLayerVisibilityThrows(x, v)
         \/ \E o \in Opacities : ChangeLayerOpacityThrows(x, o) )
       => (x \in nativeCalls' /\ ~escaped')]_vars

\* ---------------------------------------------------------------- C17
\* C17 (failure per entry): a pass in which the read of one layer throws
\* skips that layer only: it leaves the store a complete pass leaves, without
\* the entry of that layer.
C17_PerEntry ==
  [][\A l \in AllIds :
       /\ SyncTimerThrows(l) =>
            layerStates' =
              Without(reconcile(updateLayerStatesFromMap(layerStates),
                                removedCustomLayerIds, customLayerRegistry,
                                adapterLayers), {l})
       /\ CheckTimerThrows(l) =>
            layerStates' =
              Without(reconcile(layerStates, removedCustomLayerIds,
                                customLayerRegistry, adapterLayers), {l})]_vars

PassRan ==
  /\ ~isStyleOperationInProgress
  /\ \/ SyncTimer
     \/ CheckTimer
     \/ \E l \in AllIds : SyncTimerThrows(l)
     \/ \E l \in AllIds : CheckTimerThrows(l)
     \/ phase # "constructed" /\ RegisterCustomAdapter
     \/ /\ \E i \in 1..Len(Reached) : Reached[i] = "immediate"
        /\ \/ \E x \in CustomIds : AdapterAddLayer(x)
           \/ \E x \in CustomIds : AdapterRemoveLayer(x)

\* C19 (no orphans): after a pass that ran with the guard lowered every key of
\* the store is Background, a layer of the host map, or an id that a
\* registered adapter reports.
C19_NoOrphans ==
  [][PassRan =>
       \A k \in DOMAIN layerStates' :
         \/ k = Background
         \/ k \in DOMAIN mapLayers'
         \/ k \in getAllLayerIds(customLayerRegistry', adapterLayers')]_vars

\* ---------------------------------------------------------------- C20
\* C20 (Background as a derived view): once the control is attached and the
\* passes that follow the changes made so far have run, the Background entry,
\* while it has members on the map, is visible exactly when one of its
\* members is visible on the map.
C20_BackgroundDerived ==
  ( /\ phase = "attached"
    /\ Background \in DOMAIN layerStates
    /\ backgroundMembers # {}
    /\ timers = <<>> )
  => layerStates[Background].visible =
       (\E l \in backgroundMembers : mapLayers[l].visible)

\* ---------------------------------------------------------------- C21
\* The Background row under every configuration of the classifier: the
\* application adds and removes layers, drawing-tool layers included, passes
\* run, and the user works the checkbox and the slider of the Background row.
BackgroundOptions == {o \in ClassifierOptions : o.layers = {}}

InitBackground ==
  Constructed(BackgroundOptions, {{"water"}, {"water", "user", "gm-tmp"}})

NextBackground ==
  \/ OnAdd
  \/ FetchResolved
  \/ FetchRejected
  \/ \E l \in NativeIds : HostAddLayer(l)
  \/ \E l \in NativeIds : HostRemoveLayer(l)
  \/ SyncTimer
  \/ \E v \in BOOLEAN : ToggleBackgroundVisibility(v)
  \/ \E o \in Opacities : ChangeBackgroundOpacity(o)

SpecBackground == InitBackground /\ [][NextBackground]_vars

\* A step in which the user writes to the Background row.
BackgroundWrite ==
  \/ \E v \in BOOLEAN : ToggleBackgroundVisibility(v)
  \/ \E o \in Opacities : ChangeBackgroundOpacity(o)

\* C21 (Background fan-out): once the passes that follow the changes of the
\* host have run, a visibility or opacity write on the Background row calls the
\* native API for every layer of the map that has no entry of its own, and
\* for no other layer.
C21_FanOut ==
  [][(BackgroundWrite /\ timers = <<>>) =>
       nativeCalls' = DOMAIN mapLayers \ DOMAIN layerStates]_vars

\* ---------------------------------------------------------------- C22
\* LayerControl.isMapLibreLayer: map.getLayer finds the layer.
isMapLibreLayer(layerId) == layerId \in DOMAIN mapLayers

Reverse(seq) == [i \in 1..Len(seq) |-> seq[Len(seq) + 1 - i]]
\* Array.prototype.indexOf, 0 when the value is not an element.
IndexOf(seq, v) ==
  IF v \in Range(seq) THEN CHOOSE i \in 1..Len(seq) :
                             /\ seq[i] = v
                             /\ \A j \in 1..(i - 1) : seq[j] # v
  ELSE 0
Lowest(S) == CHOOSE x \in S : \A y \in S : x <= y
Highest(S) == CHOOSE x \in S : \A y \in S : y <= x

\* getUserLayerIdsInMapOrder: the keys of the store, Background apart, as the
\* panel lists them: the custom layers that are no layers of the map, in the
\* order of the keys, then the keys that are layers of the map, the highest
\* of style.layers first.  `keys` are the keys of store `states`, `stack` is
\* style.layers from the lowest layer to the highest.
getUserLayerIdsInMapOrder(keys, states, stack) ==
  LET userLayerIdsOf == SelectSeq(keys, LAMBDA id : id # Background)
      customLayers == SelectSeq(userLayerIdsOf,
                        LAMBDA id : states[id].isCustomLayer /\ id \notin Range(stack))
      sortedMapLibreLayers == SelectSeq(Reverse(stack),
                                LAMBDA id : id \in Range(userLayerIdsOf))
  IN  customLayers \o sortedMapLibreLayers

\* map.moveLayer(id, beforeId) on style.layers: id is taken out and put in
\* just below beforeId, or on top of all layers when beforeId is undefined.
\* The control passes ids of layers of the map only.
moveLayer(stack, id, beforeId) ==
  LET rest == SelectSeq(stack, LAMBDA l : l # id)
  IN  IF id \notin Range(stack) THEN stack
      ELSE IF beforeId = Null THEN Append(rest, id)
      ELSE IF Val(beforeId) \notin Range(rest) THEN stack
      ELSE InsertBefore(rest, IndexOf(rest, Val(beforeId)), id)

\* LayerControl.findNextMapLibreLayer: the first layer of the map in layerIds
\* from place startIndex on, towards the end (direction 1) or towards the
\* front (direction -1); places are counted from 1 here.
findNextMapLibreLayer(layerIds, startIndex, direction) ==
  LET found == {i \in 1..Len(layerIds) :
                  /\ isMapLibreLayer(layerIds[i])
                  /\ IF direction = 1 THEN i >= startIndex ELSE i <= startIndex}
  IN  IF found = {} THEN Null
      ELSE Some(layerIds[IF direction = 1 THEN Lowest(found) ELSE Highest(found)])

\* What the four moves of the context menu share: the store is rebuilt with
\* Background first if it exists and then the entries of orderedIds, the panel
\* is rebuilt from it, and the layer is moved in the style when `moves` holds.
\* None of them raises the guard.
Reordered(layerId, orderedIds, moves, beforeId) ==
  LET background == IF Background \in DOMAIN layerStates THEN <<Background>> ELSE <<>>
      kept == (DOMAIN layerStates \cap {Background}) \cup Range(orderedIds)
      newTimers == IF moves THEN onStyleData ELSE <<>>
  IN  /\ layerStates' = [k \in kept |-> layerStates[k]]
      /\ order' = Some(background \o orderedIds)
      /\ mapOrder' = IF moves THEN Some(moveLayer(Val(mapOrder), layerId, beforeId))
                     ELSE mapOrder
      /\ Fits(newTimers)
      /\ timers' \in Scheduled(timers, newTimers)
      /\ nativeCalls' = {}
      /\ escaped' = FALSE
      /\ EditorsRebuilt
      /\ UNCHANGED <<options, phase, mapLayers, initialSourceIds, initialLayerIds,
                     basemapLayerIds, targetLayers, customLayerRegistry,
                     changeListeners, adapterLayers, removedCustomLayerIds,
                     isStyleOperationInProgress, skipped, removal,
                     layerChangeListeners, registryVars, styleVars, hookVars>>

\* The row of layerId has a context menu, and the model follows the orders.
HasMenu(layerId) == layerId \in Rows /\ order # Null /\ mapOrder # Null

Swapped(seq, i, j) == [seq EXCEPT ![i] = seq[j], ![j] = seq[i]]
Taken(seq, x) == SelectSeq(seq, LAMBDA y : y # x)

\* LayerControl.moveLayerUp.
MoveLayerUp(layerId) ==
  /\ HasMenu(layerId)
  /\ LET layerIds == getUserLayerIdsInMapOrder(Val(order), layerStates, Val(mapOrder))
     IN  /\ layerId \in Range(layerIds)
         /\ IndexOf(layerIds, layerId) > 1
         /\ LET index == IndexOf(layerIds, layerId)
                targetBeforeId == IF index >= 3
                                  THEN findNextMapLibreLayer(layerIds, index - 2, -1)
                                  ELSE Null
            IN  Reordered(layerId, Swapped(layerIds, index, index - 1),
                          ~layerStates[layerId].isCustomLayer /\ isMapLibreLayer(layerId),
                          targetBeforeId)

\* LayerControl.moveLayerToTop.
MoveLayerToTop(layerId) ==
  /\ HasMenu(layerId)
  /\ LET layerIds == getUserLayerIdsInMapOrder(Val(order), layerStates, Val(mapOrder))
     IN  /\ layerId \in Range(layerIds)
         /\ IndexOf(layerIds, layerId) > 1
         /\ Reordered(layerId, <<layerId>> \o Taken(layerIds, layerId),
                      ~layerStates[layerId].isCustomLayer /\ isMapLibreLayer(layerId),
                      Null)

\* LayerControl.moveLayerDown.
MoveLayerDown(layerId) ==
  /\ HasMenu(layerId)
  /\ LET layerIds == getUserLayerIdsInMapOrder(Val(order), layerStates, Val(mapOrder))
     IN  /\ layerId \in Range(layerIds)
         /\ IndexOf(layerIds, layerId) < Len(layerIds)
         /\ LET index == IndexOf(layerIds, layerId)
                belowLayerId == findNextMapLibreLayer(layerIds, index + 1, 1)
            IN  Reordered(layerId, Swapped(layerIds, index, index + 1),
                          /\ ~layerStates[layerId].isCustomLayer
                          /\ isMapLibreLayer(layerId)
                          /\ belowLayerId # Null,
                          belowLayerId)

\* LayerControl.moveLayerToBottom.
MoveLayerToBottom(layerId) ==
  /\ HasMenu(layerId)
  /\ LET layerIds == getUserLayerIdsInMapOrder(Val(order), layerStates, Val(mapOrder))
     IN  /\ layerId \in Range(layerIds)
         /\ IndexOf(layerIds, layerId) < Len(layerIds)
         /\ LET bottomLayerId == findNextMapLibreLayer(layerIds, Len(layerIds), -1)
            IN  Reordered(layerId, Append(Taken(layerIds, layerId), layerId),
                          /\ ~layerStates[layerId].isCustomLayer
                          /\ isMapLibreLayer(layerId)
                          /\ bottomLayerId # Null
                          /\ bottomLayerId # Some(layerId),
                          bottomLayerId)

\* One of the four moves of the context menu of row layerId.
MoveLayer(layerId) ==
  \/ MoveLayerUp(layerId)
  \/ MoveLayerToTop(layerId)
  \/ MoveLayerDown(layerId)
  \/ MoveLayerToBottom(layerId)

\* The loop of applyUIOrderToMap from place i of reversedIds on: every id
\* that is a layer of the map is moved before the last layer of the map in
\* front of it in reversedIds, the first one with no beforeId.
RECURSIVE movedInOrder(_, _, _)
movedInOrder(stack, reversedIds, i) ==
  IF i > Len(reversedIds) THEN stack
  ELSE LET layerId == reversedIds[i]
           earlier == {j \in 1..(i - 1) : reversedIds[j] \in Range(stack)}
           beforeId == IF earlier = {} THEN Null
                       ELSE Some(reversedIds[Highest(earlier)])
       IN  movedInOrder(IF layerId \in Range(stack)
                        THEN moveLayer(stack, layerId, beforeId) ELSE stack,
                        reversedIds, i + 1)

\* endDrag / applyUIOrderToMap: a row was dragged to another place of the
\* panel, whose rows are uiLayerIds now, from the top.  The guard is raised,
\* every row that is a layer of the map is moved in the style, and the guard
\* is lowered after the settle delay.  The store is not rebuilt.
ApplyUIOrderToMap(uiLayerIds) ==
  LET styled == Rows \cap DOMAIN mapLayers # {}
      newTimers == (IF styled THEN onStyleData ELSE <<>>)
                     \o <<Timer("settle", SettleDelay)>>
  IN  /\ Rows # {}
      /\ mapOrder # Null
      /\ uiLayerIds \in Orderings(Rows)
      /\ isStyleOperationInProgress' = TRUE
      /\ mapOrder' = Some(movedInOrder(Val(mapOrder), Reverse(uiLayerIds), 1))
      /\ Fits(newTimers)
      /\ timers' \in Scheduled(timers, newTimers)
      /\ nativeCalls' = {}
      /\ escaped' = FALSE
      /\ UNCHANGED <<options, phase, mapLayers, initialSourceIds, initialLayerIds,
                     basemapLayerIds, layerStates, targetLayers,
                     customLayerRegistry, changeListeners, adapterLayers,
                     removedCustomLayerIds, skipped, removal, order,
                     layerChangeListeners, componentVars>>

\* The order of the rows: controls in auto-detect mode without basemapStyleUrl
\* and without the drawn-layer exclusion, with and without an adapter, on a
\* map that holds its basemap.  The application adds and removes layers, the
\* adapter its own, passes run, and the user removes and reorders rows.
OrderOptions ==
  {o \in Options : o.layers = {} /\ o.excludeLayers = {} /\ ~o.basemapStyleUrl}

\* The orders in which the panel can show rows.
PanelOrders == UNION {Orderings(S) : S \in SUBSET (AllIds \ {Background})}

InitOrder ==
  /\ Built({o \in OrderOptions : ~o.excludeDrawnLayers}, {{"water"}})
  /\ order = Some(<<>>)
  /\ mapOrder \in {Some(ids) : ids \in Orderings(DOMAIN mapLayers)}
  /\ ComponentsUnused

NextOrder ==
  \/ OnAdd
  \/ \E l \in NativeIds \ {"water"} : HostAddLayer(l)
  \/ \E l \in NativeIds \ {"water"} : HostRemoveLayer(l)
  \/ SyncTimer
  \/ CheckTimer
  \/ SettleTimer
  \/ \E x \in CustomIds : AdapterAddLayer(x)
  \/ \E x \in CustomIds : AdapterRemoveLayer(x)
  \/ \E id \in AllIds, r \in BOOLEAN : RemoveLayer(id, r)
  \/ \E id \in AllIds : MoveLayer(id)
  \/ \E ui \in PanelOrders : ApplyUIOrderToMap(ui)

SpecOrder == InitOrder /\ [][NextOrder]_vars

PendingSettleTimers == {i \in 1..Len(timers) : timers[i] = Timer("settle", SettleDelay)}

\* C23 (the guard is lowered again): whenever the guard is raised, a callback
\* that lowers it is pending, whichever way the handler that raised it was
\* left.
C23_GuardLowered == isStyleOperationInProgress => PendingSettleTimers # {}

\* ---------------------------------------------------------------- C24
\* C24 (basemap fetch ordering): while the fetch of the basemap style is in
\* flight no step gives a layer an entry, and the step in which the fetch
\* settles leaves the store of autoDetectLayers, run on the empty store with
\* the basemapLayerIds the fetch left.
C24_FetchFirst ==
  [][phase = "fetching" =>
       IF phase' = "fetching"
       THEN DOMAIN layerStates' = {}
       ELSE layerStates' =
              autoDetectLayers(EmptyStates,
                               [Context EXCEPT !.basemapLayerIds = basemapLayerIds'])]_vars

\* ---------------------------------------------------------------- C25
\* The fetch of the basemap style has failed: the control is attached with
\* basemapStyleUrl configured and basemapLayerIds unset (a fetch that resolves
\* always sets it).
FetchFailed ==
  phase = "attached" /\ options.basemapStyleUrl /\ basemapLayerIds = Null

InitLifecycle == Constructed(AutoDetectOptions, {{"water"}})

NextLifecycle ==
  \/ OnAdd
  \/ FetchResolved
  \/ FetchRejected
  \/ OnRemove
  \/ \E l \in AppLayerIds : HostAddLayer(l)
  \/ \E l \in AppLayerIds : HostRemoveLayer(l)
  \/ SyncTimer
  \/ CheckTimer
  \/ SettleTimer
  \/ \E x \in CustomIds : AdapterAddLayer(x)
  \/ \E x \in CustomIds : AdapterRemoveLayer(x)
  \/ RegisterCustomAdapter
  \/ \E id \in ToggledIds, v \in BOOLEAN : ToggleLayerVisibility(id, v)

SpecLifecycle == InitLifecycle /\ [][NextLifecycle]_vars

\* C26 (write-once classification context): once initialLayerIds,
\* initialSourceIds or basemapLayerIds is set, no step changes it.
C26_WriteOnce ==
  [][/\ initialLayerIds # Null => initialLayerIds' = initialLayerIds
     /\ initialSourceIds # Null => initialSourceIds' = initialSourceIds
     /\ basemapLayerIds # Null => basemapLayerIds' = basemapLayerIds]_vars

\* ---------------------------------------------------------------- C27
\* layerUtils.  The value getOpacityProperty returns is a string, an array of
\* strings or null.
StringProperty(name) == [kind |-> "string", names |-> <<name>>]
ArrayProperty(names) == [kind |-> "array", names |-> names]
NullProperty == [kind |-> "null", names |-> <<>>]

\* getOpacityProperty with the default branch for every type.
getOpacityProperty_pattern(layerType) == StringProperty(layerType \o "-opacity")

getOpacityProperty(layerType) ==
  CASE layerType = "fill"           -> StringProperty("fill-opacity")
    [] layerType = "line"           -> StringProperty("line-opacity")
    [] layerType = "circle"         -> StringProperty("circle-opacity")
    [] layerType = "symbol"         -> ArrayProperty(<<"icon-opacity", "text-opacity">>)
    [] layerType = "raster"         -> StringProperty("raster-opacity")
    [] layerType = "background"     -> StringProperty("background-opacity")
    [] layerType = "heatmap"        -> StringProperty("heatmap-opacity")
    [] layerType = "fill-extrusion" -> StringProperty("fill-extrusion-opacity")
    [] layerType = "hillshade"      -> StringProperty("hillshade-exaggeration")
    [] layerType = "color-relief"   -> NullProperty
    [] OTHER                        -> StringProperty(layerType \o "-opacity")

\* The layer types of the style specification, and two it does not know.
LayerTypes ==
  {"fill", "line", "circle", "symbol", "raster", "background", "heatmap",
   "fill-extrusion", "hillshade", "color-relief", "custom", "sky"}

\* Layers with their type and their paint properties (none set), in place of
\* the opacity the paint properties amount to.
TypedLayers(ids) ==
  [ids -> [type : LayerTypes, paint : {[p \in {} |-> 100]}]]

\* A control that is not attached yet, on a map with two layers of any types.
InitOpacity ==
  /\ options \in {o \in AutoDetectOptions : ~o.basemapStyleUrl /\ ~o.customLayerAdapters}
  /\ phase = "constructed"
  /\ mapLayers \in TypedLayers({"water", "user"})
  /\ initialSourceIds = Null
  /\ initialLayerIds = Null
  /\ basemapLayerIds = Null
  /\ layerStates = EmptyStates
  /\ targetLayers = options.layers
  /\ customLayerRegistry = Null
  /\ changeListeners = <<>>
  /\ adapterLayers = EmptyStates
  /\ removedCustomLayerIds = {}
  /\ isStyleOperationInProgress = FALSE
  /\ timers = <<>>
  /\ skipped = FALSE
  /\ removal = [x \in CustomIds |-> "none"]
  /\ nativeCalls = {}
  /\ escaped = FALSE
  /\ order = Null
  /\ mapOrder = Null
  /\ layerChangeListeners = 0
  /\ ComponentsUnused

\* layerUtils.setLayerOpacity(map, layerId, getLayerType(map, layerId),
\* opacity): map.setPaintProperty for every name getOpacityProperty returns.
SetLayerOpacity(layerId, opacity) ==
  LET opacityProp == getOpacityProperty(mapLayers[layerId].type)
      written == [p \in Range(opacityProp.names) |-> opacity]
  IN  /\ layerId \in DOMAIN mapLayers
      /\ mapLayers' = [mapLayers EXCEPT ![layerId].paint = Merge(@, written)]
      /\ Fits(IF mapLayers' # mapLayers THEN onStyleData ELSE <<>>)
      /\ timers' \in Scheduled(timers, IF mapLayers' # mapLayers THEN onStyleData ELSE <<>>)
      /\ nativeCalls' = {layerId}
      /\ escaped' = FALSE
      /\ UNCHANGED <<options, phase, initialSourceIds, initialLayerIds,
                     basemapLayerIds, layerStates, targetLayers,
                     customLayerRegistry, changeListeners, adapterLayers,
                     removedCustomLayerIds, isStyleOperationInProgress, skipped,
                     removal, order, layerChangeListeners, componentVars, mapOrder>>

NextOpacity == \E l \in NativeIds, o \in Opacities : SetLayerOpacity(l, o)

SpecOpacity == InitOpacity /\ [][NextOpacity]_vars

\* The types whose opacity property is the type followed by '-opacity'.
SuffixedTypes ==
  {"fill", "line", "circle", "raster", "background", "heatmap", "fill-extrusion"}

\* C27 (getOpacityProperty): for the type t of every layer, the function
\* returns t followed by '-opacity' when t is fill, line, circle, raster,
\* background, heatmap or fill-extrusion, the array of icon-opacity and
\* text-opacity for symbol, hillshade-exaggeration for hillshade, null for
\* color-relief, and t followed by '-opacity' for any other t; and the paint
\* properties setLayerOpacity has set are those names.
C27_OpacityProperty ==
  \A l \in DOMAIN mapLayers :
    LET t == mapLayers[l].type
        expected ==
          CASE t \in SuffixedTypes -> StringProperty(t \o "-opacity")
            [] t = "symbol" -> ArrayProperty(<<"icon-opacity", "text-opacity">>)
            [] t = "hillshade" -> StringProperty("hillshade-exaggeration")
            [] t = "color-relief" -> NullProperty
            [] OTHER -> StringProperty(t \o "-opacity")
    IN  /\ getOpacityProperty(t) = expected
        /\ DOMAIN mapLayers[l].paint \subseteq Range(expected.names)

\* The opacity has been set on a symbol layer (both names written) and on a
\* color-relief layer (nothing written).
C27_Witness ==
  /\ nativeCalls = {"user"}
  /\ mapLayers["user"].type = "color-relief"
  /\ mapLayers["water"].type = "symbol"
  /\ DOMAIN mapLayers["water"].paint = {"icon-opacity", "text-opacity"}
  /\ DOMAIN mapLayers["user"].paint = {}

\* ---------------------------------------------------------------- C28
\* C28 (overlapping mutations): the guard stays raised for as long as the
\* callback that ends the settle window of any mutation is pending.
C28_GuardHeld == PendingSettleTimers # {} => isStyleOperationInProgress

\* ---------------------------------------------------------------- C29
\* The application changes its layer and the user toggles rows while the
\* callbacks of the timers run; a callback that is due is run in the end
\* (the event loop of the browser runs every expired setTimeout).
NextLive ==
  \/ OnAdd
  \/ FetchResolved
  \/ FetchRejected
  \/ \E l \in AppLayerIds : HostAddLayer(l)
  \/ \E l \in AppLayerIds : HostRemoveLayer(l)
  \/ SyncTimer
  \/ SettleTimer
  \/ \E id \in ToggledIds \cap NativeIds, v \in BOOLEAN : ToggleLayerVisibility(id, v)

SpecLive ==
  /\ Init
  /\ [][NextLive]_vars
  /\ WF_vars(SyncTimer)
  /\ WF_vars(SettleTimer)

\* The layers of the map a pass would add to the store or drop from it.
StaleLayers ==
  {l \in DOMAIN mapLayers : isNewLayer(layerStates, l)}
    \cup {id \in DOMAIN layerStates :
            /\ id # Background
            /\ ~layerStates[id].isCustomLayer
            /\ id \notin DOMAIN mapLayers}

\* A step of a timer callback: neither the user nor the application acts.
TimerStep == SyncTimer \/ CheckTimer \/ SettleTimer

\* C29 (eventual convergence): when user mutations and host changes stop,
\* a host change whose pass was skipped under the guard is in the end
\* reflected by the store, with no further host notification.
C29_Converges ==
  (<>[][TimerStep]_vars) => [](skipped /\ StaleLayers # {} => <>(StaleLayers = {}))

\* ---------------------------------------------------------------- C30
\* A step in which the map emits for a change of the application's layers.
HostNotifies ==
  \E l \in AppLayerIds : HostAddLayer(l) \/ HostRemoveLayer(l)

\* C30 (detach): between onRemove and a later onAdd, a notification of the
\* map schedules no callback, and a callback scheduled before the removal
\* neither changes the state store nor runs a pass over the map.
C30_Detached ==
  [][(phase = "removed" /\ (HostNotifies \/ TimerStep)) =>
       /\ layerStates' = layerStates
       /\ Len(timers') <= Len(timers)
       /\ PassRuns => isStyleOperationInProgress]_vars

\* ================================================================ registry
\* CustomLayerRegistry on its own: adapters are registered, replaced and
\* unregistered, callbacks subscribe and unsubscribe, adapters emit change
\* events and the setters are routed.
\* ---------------------------------------------------------------- bounds
\* most live subscriptions of the registry to one adapter
MaxSubscriptions == 2
\* most callbacks in changeListeners
MaxListeners == 2

\* The fields of the control and of the map, changeListeners apart.
controlVars ==
  <<options, phase, mapLayers, initialSourceIds, initialLayerIds,
    basemapLayerIds, layerStates, targetLayers, customLayerRegistry,
    adapterLayers, removedCustomLayerIds, isStyleOperationInProgress, timers,
    skipped, removal, nativeCalls, escaped, order, layerChangeListeners,
    mapOrder, activeStyleEditor, styleEditors, originalStyles, paintAtCache,
    panelWidth>>

\* Map.prototype.set: the value of an existing key is replaced where the key
\* stands, a new key goes to the end.
MapSet(entries, type, a) ==
  IF \E i \in 1..Len(entries) : entries[i].type = type
  THEN [i \in 1..Len(entries) |->
          IF entries[i].type = type THEN [type |-> type, adapter |-> a]
          ELSE entries[i]]
  ELSE Append(entries, [type |-> type, adapter |-> a])

\* Map.prototype.delete.
MapDelete(entries, type) ==
  LET kept(e) == e.type # type IN SelectSeq(entries, kept)

\* getAdapterForLayer returning the last adapter that lists layerId.
RECURSIVE getAdapterForLayer_last(_, _, _)
getAdapterForLayer_last(entries, listings, layerId) ==
  IF entries = <<>> THEN Null
  ELSE LET later == getAdapterForLayer_last(Tail(entries), listings, layerId)
       IN  IF later # Null THEN later
           ELSE IF layerId \in listings[Head(entries).adapter]
                THEN Some(Head(entries).adapter) ELSE Null

\* CustomLayerRegistry.getAdapterForLayer: the first adapter of
\* adapters.values() whose getLayerIds() includes layerId, or null.
RECURSIVE getAdapterForLayer(_, _, _)
getAdapterForLayer(entries, listings, layerId) ==
  IF entries = <<>> THEN Null
  ELSE IF layerId \in listings[Head(entries).adapter]
       THEN Some(Head(entries).adapter)
       ELSE getAdapterForLayer(Tail(entries), listings, layerId)

\* CustomLayerRegistry.register.
Register(a) ==
  /\ subscriptions[a] < MaxSubscriptions
  /\ adapters' = MapSet(adapters, TypeOf(a), a)
  /\ IF hasOnLayerChange(a)
     THEN /\ subscriptions' = [subscriptions EXCEPT ![a] = @ + 1]
          /\ unsubscribers' = Merge(unsubscribers, [t \in {TypeOf(a)} |-> a])
     ELSE UNCHANGED <<subscriptions, unsubscribers>>
  /\ registered' =
       LET others(b) == TypeOf(b) # TypeOf(a)
       IN  Append(SelectSeq(registered, others), a)
  /\ lastCall' = [NoCall EXCEPT !.op = "register", !.adapter = Some(a)]
  /\ UNCHANGED <<controlVars, changeListeners, adapterLayerIds, cancelled>>

\* CustomLayerRegistry.unregister.
Unregister(type) ==
  /\ IF type \in DOMAIN unsubscribers
     THEN /\ subscriptions' = [subscriptions EXCEPT ![unsubscribers[type]] = @ - 1]
          /\ unsubscribers' = Without(unsubscribers, {type})
     ELSE UNCHANGED <<subscriptions, unsubscribers>>
  /\ adapters' = MapDelete(adapters, type)
  /\ registered' = LET others(b) == TypeOf(b) # type IN SelectSeq(registered, others)
  /\ lastCall' = [NoCall EXCEPT !.op = "unregister"]
  /\ UNCHANGED <<controlVars, changeListeners, adapterLayerIds, cancelled>>

\* CustomLayerRegistry.destroy.
Destroy ==
  /\ subscriptions' =
       [a \in RegistryAdapters |->
          subscriptions[a]
            - Cardinality({t \in DOMAIN unsubscribers : unsubscribers[t] = a})]
  /\ unsubscribers' = Without(unsubscribers, DOMAIN unsubscribers)
  /\ adapters' = <<>>
  /\ registered' = <<>>
  /\ changeListeners' = <<>>
  /\ lastCall' = [NoCall EXCEPT !.op = "destroy"]
  /\ UNCHANGED <<controlVars, adapterLayerIds, cancelled>>

\* CustomLayerRegistry.onChange(callback).
OnChange(callback) ==
  /\ Len(changeListeners) < MaxListeners
  /\ changeListeners' = Append(changeListeners, callback)
  /\ cancelled' = cancelled \ {callback}
  /\ lastCall' = [NoCall EXCEPT !.op = "onChange"]
  /\ UNCHANGED <<controlVars, adapters, unsubscribers, subscriptions,
                 adapterLayerIds, registered>>

\* A function that onChange(callback) returned is called: the first
\* occurrence of the callback is spliced out of changeListeners.
Unsubscribe(callback) ==
  LET idx == IndexOf(changeListeners, callback)
  IN  /\ callback \in Range(changeListeners) \cup cancelled
      /\ changeListeners' =
           IF idx > 0
           THEN SubSeq(changeListeners, 1, idx - 1)
                  \o SubSeq(changeListeners, idx + 1, Len(changeListeners))
           ELSE changeListeners
      /\ cancelled' = cancelled \cup {callback}
      /\ lastCall' = [NoCall EXCEPT !.op = "unsubscribe"]
      /\ UNCHANGED <<controlVars, adapters, unsubscribers, subscriptions,
                     adapterLayerIds, registered>>

\* The callbacks one run of CustomLayerRegistry.notifyChange invokes, n runs
\* one after the other.
RECURSIVE Notified_n(_, _)
Notified_n(listeners, n) ==
  IF n = 0 THEN <<>> ELSE listeners \o Notified_n(listeners, n - 1)

\* Adapter a emits a change event for layer x: every callback the registry
\* has subscribed to a (and not unsubscribed) runs notifyChange.
AdapterEmits(a, event, x) ==
  /\ adapterLayerIds' =
       [adapterLayerIds EXCEPT ![a] = IF event = "add" THEN @ \cup {x} ELSE @ \ {x}]
  /\ lastCall' = [NoCall EXCEPT !.op = "emit", !.adapter = Some(a),
                                !.layerId = Some(x),
                                !.invoked = Notified_n(changeListeners, subscriptions[a])]
  /\ UNCHANGED <<controlVars, changeListeners, adapters, unsubscribers,
                 subscriptions, registered, cancelled>>

\* CustomLayerRegistry.setVisibility / setOpacity (op names the setter).
RegistrySet(op, layerId) ==
  LET adapter == getAdapterForLayer(adapters, adapterLayerIds, layerId)
  IN  /\ lastCall' =
           [NoCall EXCEPT !.op = op, !.layerId = Some(layerId),
                          !.setters = IF adapter # Null
                                      THEN <<[adapter |-> Val(adapter), setter |-> op]>>
                                      ELSE <<>>,
                          !.returned = (adapter # Null)]
      /\ UNCHANGED <<controlVars, changeListeners, adapters, unsubscribers,
                     subscriptions, adapterLayerIds, registered, cancelled>>

InitRegistry ==
  /\ Built({o \in AutoDetectOptions : ~o.basemapStyleUrl /\ ~o.customLayerAdapters},
           {{}})
  /\ order = Null
  /\ mapOrder = Null
  /\ NoEditors
  /\ NoStyles
  /\ panelWidth = Null
  /\ NewRegistry
  /\ adapterLayerIds = [a \in RegistryAdapters |-> {}]

NextRegistry ==
  \/ \E a \in RegistryAdapters : Register(a)
  \/ \E a \in RegistryAdapters : Unregister(TypeOf(a))
  \/ Destroy
  \/ \E cb \in Callbacks : OnChange(cb)
  \/ \E cb \in Callbacks : Unsubscribe(cb)
  \/ \E a \in RegistryAdapters, e \in {"add", "remove"}, x \in CustomIds :
       AdapterEmits(a, e, x)
  \/ \E op \in {"setVisibility", "setOpacity"}, x \in CustomIds : RegistrySet(op, x)

SpecRegistry == InitRegistry /\ [][NextRegistry]_vars

\* ---------------------------------------------------------------- C31
\* The types that have an adapter registered.
RegisteredTypes == {adapters[i].type : i \in 1..Len(adapters)}

\* A step in which an adapter emits a change event.
Emits ==
  \E a \in RegistryAdapters, e \in {"add", "remove"}, x \in CustomIds :
    AdapterEmits(a, e, x)

\* An event of an adapter whose type is not registered (it was unregistered,
\* whether or not the adapter had been replaced before) invokes no callback.
UnregisteredSilent ==
  [][(Emits /\ TypeOf(Val(lastCall'.adapter)) \notin RegisteredTypes) =>
       lastCall'.invoked = <<>>]_vars

\* A callback for which a function returned by onChange was called is not
\* invoked by any later event.
CancelledSilent ==
  [][Emits => Range(lastCall'.invoked) \cap cancelled = {}]_vars

\* C31 (registry subscriptions): after unregister(type) no event of an
\* adapter ever registered under the type reaches a callback of onChange, and
\* after its unsubscribe function was called a callback is not invoked again.
C31_Subscriptions == UnregisteredSilent /\ CancelledSilent

\* ---------------------------------------------------------------- C32
\* A step in which setVisibility or setOpacity of the registry is called.
Routes ==
  \E op \in {"setVisibility", "setOpacity"}, x \in CustomIds : RegistrySet(op, x)

\* The registered adapters of seq that list layerId, in the order of seq.
Listing(seq, layerId) ==
  LET lists(a) == layerId \in adapterLayerIds[a] IN SelectSeq(seq, lists)

\* The adapters of the Map, in its iteration order.
MapValues == [i \in 1..Len(adapters) |-> adapters[i].adapter]

\* What the call did, when the adapters that list the id come in order
\* `listing`: handled exactly when there is one, and then the setter the
\* call names was invoked on the first of them and on no other.
RoutedTo(listing) ==
  /\ lastCall'.returned = (listing # <<>>)
  /\ lastCall'.setters =
       IF listing # <<>>
       THEN <<[adapter |-> Head(listing), setter |-> lastCall'.op]>>
       ELSE <<>>

\* C32 as stated (registry routing): the setter is invoked on the first
\* adapter, in the order in which the registered adapters were registered,
\* that lists the id.
C32_RegistrationOrder ==
  [][Routes => RoutedTo(Listing(registered, Val(lastCall'.layerId)))]_vars

\* C32 (registry routing), amended: the setter is invoked on the first
\* adapter that lists the id in the order of the adapters Map, in which an
\* adapter that replaces one of its type stands where that one stood.
C32_MapOrder ==
  [][Routes => RoutedTo(Listing(MapValues, Val(lastCall'.layerId)))]_vars

\* A call was routed while two registered adapters listed the id, and the one
\* registered last stood first in the Map.
C32_Witness ==
  /\ lastCall.op = "setVisibility"
  /\ lastCall.returned
  /\ Len(Listing(registered, Val(lastCall.layerId))) = 2
  /\ Listing(registered, Val(lastCall.layerId))
       # Listing(MapValues, Val(lastCall.layerId))

\* ---------------------------------------------------------------- C33
\* The custom layers that have an entry whose visible or opacity is not what
\* their adapter reports.
Diverged ==
  {x \in CustomIds :
     /\ x \in DOMAIN layerStates /\ layerStates[x].isCustomLayer
     /\ Listed(x)
     /\ layerStates[x] # getLayerState(adapterLayers, x)}

\* C33 (reconciliation and custom entries): a reconciliation, whether it
\* starts with updateLayerStatesFromMap or not, leaves the entry of a custom
\* layer that a registered adapter still reports as it was.
C33_CustomUntouched ==
  [][PassRuns =>
       \A x \in CustomIds :
         (x \in DOMAIN layerStates /\ layerStates[x].isCustomLayer /\ Listed(x))
           => (x \in DOMAIN layerStates' /\ layerStates'[x] = layerStates[x])]_vars

\* A reconciliation is due with the guard lowered while the entry of a custom
\* layer differs from what its adapter reports.
C33_Witness ==
  /\ Diverged # {}
  /\ ~isStyleOperationInProgress
  /\ timers # <<>> /\ Head(timers)[1] \in {"sync", "check"}

\* ---------------------------------------------------------------- C34
\* LayerControl.setAllBackgroundLayersVisibility ('Show All' / 'Hide All' of
\* the background legend): every member on the map, then
\* updateBackgroundCheckboxState, which ticks the entry when the cached
\* visibility of some member is true.
SetAllBackgroundLayersVisibility(visible) ==
  LET written == [l \in DOMAIN mapLayers |->
                   IF l \in backgroundMembers
                   THEN [mapLayers[l] EXCEPT !.visible = visible]
                   ELSE mapLayers[l]]
      newTimers == IF written # mapLayers THEN onStyleData ELSE <<>>
      anyVisible == visible /\ backgroundMembers # {}
  IN  /\ BackgroundRow
      /\ layerStates' = [layerStates EXCEPT ![Background].visible = anyVisible]
      /\ mapLayers' = written
      /\ Fits(newTimers)
      /\ timers' \in Scheduled(timers, newTimers)
      /\ order' \in keysAfter(order, layerStates')
      /\ nativeCalls' = backgroundMembers
      /\ escaped' = FALSE
      /\ EditorsCleaned
      /\ UNCHANGED <<options, phase, initialSourceIds, initialLayerIds,
                     basemapLayerIds, targetLayers, customLayerRegistry,
                     changeListeners, adapterLayers, removedCustomLayerIds,
                     isStyleOperationInProgress, skipped, removal,
                     layerChangeListeners, registryVars, styleVars, hookVars, mapOrder>>

\* The Background row and its legend under every configuration of the
\* classifier, explicit layer lists included.
InitLegend == Constructed(ClassifierOptions, {{"water", "user", "gm-tmp"}})

NextLegend ==
  \/ NextBackground
  \/ \E v \in BOOLEAN : SetAllBackgroundLayersVisibility(v)

SpecLegend == InitLegend /\ [][NextLegend]_vars

\* A step in which the user writes to the Background row or to all of its
\* members in the legend.
BackgroundWrites ==
  \/ BackgroundWrite
  \/ \E v \in BOOLEAN : SetAllBackgroundLayersVisibility(v)

\* C34 (Background writes and individual layers): a visibility or opacity
\* write on the Background row, 'Show All' and 'Hide All' leave the entry of
\* every layer that has one, and that layer on the host, as they were.
C34_IndividualUntouched ==
  [][BackgroundWrites =>
       \A l \in DOMAIN layerStates \ {Background} :
         /\ l \notin nativeCalls'
         /\ l \in DOMAIN layerStates' /\ layerStates'[l] = layerStates[l]
         /\ l \in DOMAIN mapLayers => mapLayers'[l] = mapLayers[l]]_vars

\* The Background row was written to while a layer of the map had an entry of
\* its own and another had none, and the write changed the host.
C34_Witness ==
  /\ nativeCalls # {}
  /\ \E l \in DOMAIN layerStates \ {Background} : l \in DOMAIN mapLayers
  /\ \E l \in nativeCalls :
       ~mapLayers[l].visible \/ mapLayers[l].opacity # 100

\* ---------------------------------------------------------------- C35
\* A move of the context menu of some row.
Moves == \E id \in AllIds : MoveLayer(id)

\* C35 (reorder only permutes): a move of the context menu leaves the set of
\* keys of the store and every entry as they were; an entry is carried as a
\* whole, with its visible, opacity and name.
C35_Permutes == [][Moves => layerStates' = layerStates]_vars

\* ---------------------------------------------------------------- C36
\* The layers of the map among ids, in the order of ids.
NativeOf(ids) == SelectSeq(ids, LAMBDA id : id \in DOMAIN mapLayers)

\* C36 (reorder conventions agree): after a drag-and-drop reorder, the list of
\* getUserLayerIdsInMapOrder restricted to the layers of the map is the order
\* of the panel that was applied, restricted likewise.
C36_ConventionsAgree ==
  [][\A ui \in PanelOrders :
       ApplyUIOrderToMap(ui) =>
         NativeOf(getUserLayerIdsInMapOrder(Val(order'), layerStates', Val(mapOrder')))
           = NativeOf(ui)]_vars

\* ---------------------------------------------------------------- style cache
\* Paint values are numbers (100 stands for 1.0), which clonePaintValue
\* returns as they are.
clonePaintValue(value) == value

\* The paint properties the model follows, the ones of a layer type, and the
\* ones whose name starts with 'raster-'.
LineProps == {"line-width", "line-opacity"}
RasterProps ==
  {"raster-opacity", "raster-brightness-min", "raster-brightness-max",
   "raster-saturation", "raster-contrast", "raster-hue-rotate"}
PropsOf(layerType) == IF layerType = "raster" THEN RasterProps ELSE LineProps
startsWithRaster(prop) == prop \in RasterProps

\* rasterDefaults of cacheOriginalLayerStyle.
rasterDefaults ==
  [p \in RasterProps |->
     IF p \in {"raster-opacity", "raster-brightness-max"} THEN 100 ELSE 0]

\* The value MapLibre renders with for a paint property that is not set: the
\* defaults of the style specification, which the editor shows (line-width 1,
\* line-opacity 1).
DefaultPaint(prop) == IF prop \in RasterProps THEN rasterDefaults[prop] ELSE 100

\* The type and the paint of the definition of a layer in style.layers; the
\* specifications that follow visibility and opacity alone hold neither, and
\* their layers count as line layers with no paint property set.
layerType(layers, layerId) ==
  IF "type" \in DOMAIN layers[layerId] THEN layers[layerId].type ELSE "line"
layerPaint(layers, layerId) ==
  IF "paint" \in DOMAIN layers[layerId] THEN layers[layerId].paint ELSE <<>>

\* The value a layer has for a paint property, set or not.
PaintValue(layers, layerId, prop) ==
  IF prop \in DOMAIN layerPaint(layers, layerId)
  THEN layerPaint(layers, layerId)[prop] ELSE DefaultPaint(prop)

\* styleCache.cacheOriginalLayerStyle, as the originalStyles it leaves.
cacheOriginalLayerStyle(layers, layerId, cache) ==
  IF layerId \in DOMAIN cache THEN cache
  ELSE IF layerId \notin DOMAIN layers THEN cache
  ELSE LET def == layerPaint(layers, layerId)
           set == [p \in DOMAIN def |-> clonePaintValue(def[p])]
           paint == IF layerType(layers, layerId) = "raster"
                    THEN Merge(rasterDefaults,
                               [p \in {q \in DOMAIN def : startsWithRaster(q)} |-> set[p]])
                    ELSE set
       IN  Merge(cache, [k \in {layerId} |-> [paint |-> paint]])

\* The history of the values at the time an entry of the cache is made.
cachedAt(layers, layerId, cache, history) ==
  IF layerId \in DOMAIN cache \/ layerId \notin DOMAIN layers THEN history
  ELSE Merge(history,
             [k \in {layerId} |->
                [p \in PropsOf(layerType(layers, layerId)) |->
                   PaintValue(layers, layerId, p)]])

\* styleCache.restoreOriginalStyle, as the layers of the map it leaves:
\* map.setPaintProperty for every property of the cached entry.
restoreOriginalStyle(layers, layerId, cache) ==
  IF layerId \notin DOMAIN cache \/ layerId \notin DOMAIN layers THEN layers
  ELSE LET restored == [p \in DOMAIN cache[layerId].paint |->
                          clonePaintValue(cache[layerId].paint[p])]
       IN  [layers EXCEPT ![layerId].paint = Merge(@, restored)]

\* ---------------------------------------------------------------- style editor
\* LayerControl.closeStyleEditor, as the values it leaves in
\* <<activeStyleEditor, styleEditors>>.
closeStyleEditor(active, editors, layerId) ==
  <<IF active = Some(layerId) THEN Null ELSE active, editors \ {layerId}>>

\* LayerControl.openStyleEditor for a row of the panel: the info panel or the
\* editor of the sublayers for a custom layer, the style editor for a layer of
\* the map; createStyleEditor makes none for a layer the map does not hold.
openStyleEditor(active, editors, layerId) ==
  IF layerStates[layerId].isCustomLayer \/ layerId \in DOMAIN mapLayers
  THEN <<Some(layerId), editors \cup {layerId}>>
  ELSE <<active, editors>>

\* What the handlers of the style editor leave alone.
EditorFrame ==
  /\ nativeCalls' = {}
  /\ escaped' = FALSE
  /\ UNCHANGED <<options, phase, mapLayers, initialSourceIds, initialLayerIds,
                 basemapLayerIds, layerStates, targetLayers, customLayerRegistry,
                 changeListeners, adapterLayers, removedCustomLayerIds,
                 isStyleOperationInProgress, timers, skipped, removal, order,
                 layerChangeListeners, registryVars, hookVars, mapOrder>>

\* LayerControl.toggleStyleEditor: the style button of row layerId is clicked
\* (options.showStyleEditor is left at its default, true).
ToggleStyleEditor(layerId) ==
  /\ layerId \in Rows
  /\ LET closed == IF activeStyleEditor = Null
                   THEN <<activeStyleEditor, styleEditors>>
                   ELSE closeStyleEditor(activeStyleEditor, styleEditors,
                                         Val(activeStyleEditor))
         after == IF activeStyleEditor = Some(layerId)
                  THEN closeStyleEditor(activeStyleEditor, styleEditors, layerId)
                  ELSE openStyleEditor(closed[1], closed[2], layerId)
     IN  /\ activeStyleEditor' = after[1]
         /\ styleEditors' = after[2]
  /\ LET opens == /\ activeStyleEditor # Some(layerId)
                   /\ ~layerStates[layerId].isCustomLayer
     IN  /\ originalStyles' =
               IF opens THEN cacheOriginalLayerStyle(mapLayers, layerId, originalStyles)
               ELSE originalStyles
         /\ paintAtCache' =
               IF opens THEN cachedAt(mapLayers, layerId, originalStyles, paintAtCache)
               ELSE paintAtCache
  /\ EditorFrame

\* The close button of the editor of row layerId is clicked.
CloseStyleEditor(layerId) ==
  /\ layerId \in Rows
  /\ layerId \in styleEditors
  /\ activeStyleEditor' = closeStyleEditor(activeStyleEditor, styleEditors, layerId)[1]
  /\ styleEditors' = closeStyleEditor(activeStyleEditor, styleEditors, layerId)[2]
  /\ UNCHANGED styleVars
  /\ EditorFrame

\* LayerControl.openBackgroundLegend: the legend button of the Background row
\* is clicked; an open style editor is closed first.
OpenBackgroundLegend ==
  /\ BackgroundRow
  /\ activeStyleEditor # Null
  /\ activeStyleEditor' = Null
  /\ styleEditors' = styleEditors \ activeStyleEditor
  /\ UNCHANGED styleVars
  /\ EditorFrame

\* The style editor: a control in auto-detect mode with an adapter, on a map
\* that holds its basemap.  The application adds
\* and removes its layer, the adapter its own, passes run, and the user opens
\* and closes editors, removes rows and moves them.
EditorOptions ==
  {o \in OrderOptions : o.customLayerAdapters /\ o.excludeDrawnLayers}

InitEditor ==
  /\ Built(EditorOptions, {{"water"}})
  /\ order = Some(<<>>)
  /\ mapOrder \in {Some(ids) : ids \in Orderings(DOMAIN mapLayers)}
  /\ ComponentsUnused

NextEditor ==
  \/ OnAdd
  \/ \E l \in AppLayerIds : HostAddLayer(l)
  \/ \E l \in AppLayerIds : HostRemoveLayer(l)
  \/ SyncTimer
  \/ SettleTimer
  \/ \E x \in CustomIds : AdapterAddLayer(x)
  \/ \E x \in CustomIds : AdapterRemoveLayer(x)
  \/ \E id \in AllIds, r \in BOOLEAN : RemoveLayer(id, r)
  \/ \E id \in AllIds : MoveLayer(id)
  \/ \E id \in AllIds : ToggleStyleEditor(id)
  \/ \E id \in AllIds : CloseStyleEditor(id)
  \/ OpenBackgroundLegend

SpecEditor == InitEditor /\ [][NextEditor]_vars

\* ---------------------------------------------------------------- C37
\* C37 (style editor state): activeStyleEditor is null or the id of a tracked
\* layer that has an editor registered in styleEditors, and at most one
\* editor is registered.
C37_EditorState ==
  /\ activeStyleEditor # Null =>
       /\ Val(activeStyleEditor) \in DOMAIN layerStates
       /\ Val(activeStyleEditor) \in styleEditors
  /\ Cardinality(styleEditors) <= 1

\* ---------------------------------------------------------------- style reset
\* The values a paint property is set to (50 stands for 0.5).
PaintValues == {50, 100}
\* The properties of a layer type that the editor or the application sets.
EditedProps(type) ==
  IF type = "raster" THEN {"raster-opacity", "raster-contrast"} ELSE LineProps
\* The layers of the style cache: lines and rasters with any of them set.
StyledLayers(ids) ==
  UNION {[ids -> {[type |-> t, paint |-> f] :
                    f \in UNION {[S -> PaintValues] : S \in SUBSET EditedProps(t)}}] :
           t \in {"line", "raster"}}

\* What the operations on the paint of a layer leave alone.
StyleFrame ==
  /\ Fits(IF mapLayers' # mapLayers THEN onStyleData ELSE <<>>)
  /\ timers' \in Scheduled(timers, IF mapLayers' # mapLayers THEN onStyleData ELSE <<>>)
  /\ escaped' = FALSE
  /\ UNCHANGED <<options, phase, initialSourceIds, initialLayerIds,
                 basemapLayerIds, layerStates, targetLayers,
                 customLayerRegistry, changeListeners, adapterLayers,
                 removedCustomLayerIds, isStyleOperationInProgress, skipped,
                 removal, order, layerChangeListeners, registryVars, editorVars,
                 hookVars, mapOrder>>

\* openStyleEditor's call of cacheOriginalLayerStyle for a layer of the map.
CacheOriginalLayerStyle(layerId) ==
  /\ layerId \in DOMAIN mapLayers
  /\ originalStyles' = cacheOriginalLayerStyle(mapLayers, layerId, originalStyles)
  /\ paintAtCache' = cachedAt(mapLayers, layerId, originalStyles, paintAtCache)
  /\ nativeCalls' = {}
  /\ UNCHANGED mapLayers
  /\ StyleFrame

\* A slider of the style editor is moved, or the application sets a paint
\* property: map.setPaintProperty(layerId, property, value).
SetPaintProperty(layerId, property, value) ==
  /\ layerId \in DOMAIN mapLayers
  /\ property \in EditedProps(layerType(mapLayers, layerId))
  /\ mapLayers' = [mapLayers EXCEPT
                     ![layerId].paint = Merge(@, [p \in {property} |-> value])]
  /\ nativeCalls' = {layerId}
  /\ UNCHANGED styleVars
  /\ StyleFrame

\* LayerControl.resetLayerStyle: the Reset button of the style editor.
ResetLayerStyle(layerId) ==
  /\ layerId \in DOMAIN originalStyles
  /\ mapLayers' = restoreOriginalStyle(mapLayers, layerId, originalStyles)
  /\ nativeCalls' = {layerId}
  /\ UNCHANGED styleVars
  /\ StyleFrame

\* A control on a map with one line or raster layer whose paint has any of
\* the edited properties set.
InitStyle ==
  /\ options \in {o \in AutoDetectOptions : ~o.basemapStyleUrl /\ ~o.customLayerAdapters}
  /\ phase = "constructed"
  /\ mapLayers \in StyledLayers({"user"})
  /\ initialSourceIds = Null
  /\ initialLayerIds = Null
  /\ basemapLayerIds = Null
  /\ layerStates = EmptyStates
  /\ targetLayers = options.layers
  /\ customLayerRegistry = Null
  /\ changeListeners = <<>>
  /\ adapterLayers = EmptyStates
  /\ removedCustomLayerIds = {}
  /\ isStyleOperationInProgress = FALSE
  /\ timers = <<>>
  /\ skipped = FALSE
  /\ removal = [x \in CustomIds |-> "none"]
  /\ nativeCalls = {}
  /\ escaped = FALSE
  /\ order = Null
  /\ mapOrder = Null
  /\ layerChangeListeners = 0
  /\ ComponentsUnused

NextStyle ==
  \/ \E l \in NativeIds : CacheOriginalLayerStyle(l)
  \/ \E l \in NativeIds, p \in LineProps \cup RasterProps, v \in PaintValues :
       SetPaintProperty(l, p, v)
  \/ \E l \in NativeIds : ResetLayerStyle(l)

SpecStyle == InitStyle /\ [][NextStyle]_vars

\* ---------------------------------------------------------------- C38
\* A second call of cacheOriginalLayerStyle leaves the cached entry alone.
CachedOnce ==
  \A l \in NativeIds :
    (CacheOriginalLayerStyle(l) /\ l \in DOMAIN originalStyles) =>
       originalStyles' = originalStyles

\* After resetLayerStyle every paint property of the layer has the value it
\* had when the cache was taken.
ResetRestores ==
  \A l \in NativeIds :
    ResetLayerStyle(l) =>
      \A p \in PropsOf(layerType(mapLayers, l)) :
        PaintValue(mapLayers', l, p) = paintAtCache[l][p]

\* C38 (style reset round-trip): the original style of a layer is cached at
\* most once, and after resetLayerStyle every paint property that was changed
\* since the cache was taken has again the value it had at that time.
C38_ResetRoundTrip == [][CachedOnce /\ ResetRestores]_vars

\* ---------------------------------------------------------------- panel width
\* largest width of the options and of the arguments of setWidth
MaxWidth == 4
\* the default step of increaseWidth and decreaseWidth
DefaultStep == 10

\* clamp without its bounds.
clamp_unbounded(value, min, max) == value

\* formatters.clamp: Math.max(min, Math.min(max, value)).
clamp(value, min, max) ==
  LET least == IF max < value THEN max ELSE value
  IN  IF min > least THEN min ELSE least

\* The options a component passes to usePanelWidth, the widths setWidth is
\* called with and the steps of increaseWidth and decreaseWidth.
WidthOptions ==
  [initialWidth : 0..MaxWidth, minWidth : 0..MaxWidth, maxWidth : 0..MaxWidth]
WidthInputs == (0 - 1)..(MaxWidth + 1)
Steps == {1, DefaultStep}

\* The state setWidthState(w) leaves: the callbacks keep the width of the
\* last render until the component renders again.
WidthSet(w) == panelWidth' = Some([Val(panelWidth) EXCEPT !.width = w])

\* What the hook leaves alone.
HookFrame ==
  UNCHANGED <<options, phase, mapLayers, initialSourceIds, initialLayerIds,
              basemapLayerIds, layerStates, targetLayers, customLayerRegistry,
              changeListeners, adapterLayers, removedCustomLayerIds,
              isStyleOperationInProgress, timers, skipped, removal, nativeCalls,
              escaped, order, layerChangeListeners, registryVars, editorVars,
              styleVars, mapOrder>>

\* A component that calls usePanelWidth(options) is mounted.
Mount(opts) ==
  /\ panelWidth = Null
  /\ panelWidth' = Some([options |-> opts, width |-> opts.initialWidth,
                         rendered |-> opts.initialWidth])
  /\ HookFrame

\* The component renders again: the callbacks close over the current width.
Render ==
  /\ panelWidth # Null
  /\ Val(panelWidth).rendered # Val(panelWidth).width
  /\ panelWidth' = Some([Val(panelWidth) EXCEPT !.rendered = Val(panelWidth).width])
  /\ HookFrame

\* usePanelWidth's setWidth(newWidth).
SetWidth(newWidth) ==
  /\ panelWidth # Null
  /\ WidthSet(clamp(newWidth, Val(panelWidth).options.minWidth,
                    Val(panelWidth).options.maxWidth))
  /\ HookFrame

\* usePanelWidth's increaseWidth(step).
IncreaseWidth(step) ==
  /\ panelWidth # Null
  /\ WidthSet(clamp(Val(panelWidth).rendered + step,
                    Val(panelWidth).options.minWidth,
                    Val(panelWidth).options.maxWidth))
  /\ HookFrame

\* usePanelWidth's decreaseWidth(step).
DecreaseWidth(step) ==
  /\ panelWidth # Null
  /\ WidthSet(clamp(Val(panelWidth).rendered - step,
                    Val(panelWidth).options.minWidth,
                    Val(panelWidth).options.maxWidth))
  /\ HookFrame

\* usePanelWidth's resetWidth().
ResetWidth ==
  /\ panelWidth # Null
  /\ WidthSet(Val(panelWidth).options.initialWidth)
  /\ HookFrame

\* A page with the control constructed and no component mounted yet.
InitWidth ==
  /\ Built({o \in AutoDetectOptions : ~o.basemapStyleUrl /\ ~o.customLayerAdapters},
           {{}})
  /\ order = Null
  /\ mapOrder = Null
  /\ ComponentsUnused

NextWidth ==
  \/ \E opts \in WidthOptions : Mount(opts)
  \/ Render
  \/ \E w \in WidthInputs : SetWidth(w)
  \/ \E step \in Steps : IncreaseWidth(step)
  \/ \E step \in Steps : DecreaseWidth(step)
  \/ ResetWidth

SpecWidth == InitWidth /\ [][NextWidth]_vars

\* ---------------------------------------------------------------- C39
\* The width of the mounted hook is within the bounds of its options.
InRange ==
  /\ Val(panelWidth).options.minWidth <= Val(panelWidth).width
  /\ Val(panelWidth).width <= Val(panelWidth).options.maxWidth

\* clamp returns the value when it is within the bounds, the bound it is
\* beyond otherwise.
ClampsTo(min, max) ==
  \A v \in WidthInputs :
    clamp(v, min, max) = IF v < min THEN min ELSE IF v > max THEN max ELSE v

\* C39 as the specification states it: for minWidth <= maxWidth the width is
\* within [minWidth, maxWidth] in every state, whatever initialWidth is.
C39_InRange ==
  (panelWidth # Null
     /\ Val(panelWidth).options.minWidth <= Val(panelWidth).options.maxWidth) =>
    /\ InRange
    /\ ClampsTo(Val(panelWidth).options.minWidth, Val(panelWidth).options.maxWidth)

\* C39 (panel width stays in range), amended: for minWidth <= initialWidth <=
\* maxWidth the width is within [minWidth, maxWidth] initially and after any
\* sequence of setWidth, increaseWidth, decreaseWidth and resetWidth, and
\* clamp returns the value or the bound it is beyond.
C39_InRangeFromInitial ==
  (panelWidth # Null
     /\ Val(panelWidth).options.minWidth <= Val(panelWidth).options.initialWidth
     /\ Val(panelWidth).options.initialWidth <= Val(panelWidth).options.maxWidth) =>
    /\ InRange
    /\ ClampsTo(Val(panelWidth).options.minWidth, Val(panelWidth).options.maxWidth)

\* The width was raised to maxWidth from an initial width below it, and the
\* component has rendered since.
C39_Witness ==
  /\ panelWidth # Null
  /\ Val(panelWidth).options.minWidth < Val(panelWidth).options.initialWidth
  /\ Val(panelWidth).options.initialWidth < Val(panelWidth).options.maxWidth
  /\ Val(panelWidth).width = Val(panelWidth).options.maxWidth
  /\ Val(panelWidth).rendered = Val(panelWidth).width

====
